---- MODULE Spec2Model ----
(***************************************************************************)
(* Verification model of the vault-sync-operator synchronization engine:   *)
(* the Secret and Deployment reconcilers (internal/controller) and the     *)
(* Vault client they write through (internal/vault/client.go).             *)
(*                                                                         *)
(* One sync target (a Deployment or a standalone Secret, chosen in Init)   *)
(* lives in the cluster next to one further Secret; users edit them, an    *)
(* outside party may delete store content, and the work queue calls        *)
(* Reconcile.  One Reconcile call is one step: the work queue runs at most *)
(* one Reconcile per target at a time.                                     *)
(***************************************************************************)
EXTENDS Integers, Sequences, FiniteSets, TLC

VARIABLES
    target,      \* the sync target object as stored by the API server
    other,       \* the further Secret object (name OtherName)
    store,       \* the secret store: physical path -> content last written
    clusterName, \* SecretReconciler.ClusterName (process configuration)
    res,         \* what the Reconcile call did and returned, when the last
                 \* step was one (NoResult after any other step)
    edits,       \* number of outside edits and crashes so far
    written,     \* every store path a Reconcile has written for the target
    tampered,    \* whether an outside party has changed the store
    probe,       \* the arguments and the result of a function applied on
                 \* its own (NoProbe while the engine runs)
    writer       \* the vault client while its calls run step by step: the
                 \* limiter's tokens, the batch mutex, the calls in progress
                 \* and the store requests sent (NoWriter otherwise)

vars == <<target, other, store, clusterName, res, edits, written,
          tampered, probe, writer>>

(***************************************************************************)
(* Bounds of the model.                                                    *)
(***************************************************************************)
MaxEdits == 2
MaxRV == 6
MaxToken == 2

(***************************************************************************)
(* Strings the code slices are sequences of one-character strings, so that *)
(* Len and SubSeq are Go's len and s[i:j].                                 *)
(***************************************************************************)
Slash == <<"/">>
W_secret == <<"s", "e", "c", "r", "e", "t">>
W_data == <<"d", "a", "t", "a">>
W_clusters == <<"c", "l", "u", "s", "t", "e", "r", "s">>

\* Go's s[i:j] (0-based, j exclusive).
Slice(s, i, j) == SubSeq(s, i + 1, j)

PathKV2 == W_secret \o Slash \o W_data \o Slash \o <<"x">>
PathKV1 == W_secret \o Slash \o <<"y">>
EmptyPath == <<>>

PathChoices == {PathKV2, PathKV1}
ClusterChoices == {<<>>, <<"c", "1">>}

(***************************************************************************)
(* Annotation keys and the finalizer.                                      *)
(***************************************************************************)
VaultPathAnnotation == "vault-sync.io/path"
VaultSecretsAnnotation == "vault-sync.io/secrets"
VaultPreserveOnDeleteAnnotation == "vault-sync.io/preserve-on-delete"
VaultRotationCheckAnnotation == "vault-sync.io/rotation-check"
VaultReconcileAnnotation == "vault-sync.io/reconcile"
VaultSecretVersionsAnnotation == "vault-sync.io/secret-versions"

\* Go's m[k] with the "comma ok" flag: Has is ok, Get the value or `zero`.
Has(m, k) == k \in DOMAIN m
Get(m, k, zero) == IF k \in DOMAIN m THEN m[k] ELSE zero

\* A Go map as a function: m with k set to v, and m without k.
MapPut(m, k, v) == [x \in DOMAIN m \cup {k} |-> IF x = k THEN v ELSE m[x]]
MapDel(m, k) == [x \in DOMAIN m \ {k} |-> m[x]]
EmptyMap == <<>>

(***************************************************************************)
(* internal/vault/client.go                                                *)
(***************************************************************************)
\* A payload (Go's map[string]interface{}): its string-valued entries and
\* its object-valued entries.
Payload(flat, nested) == [flat |-> flat, nested |-> nested]

\* isKVv2Path as its comment describes it: "/data/" anywhere in the path.
isKVv2Path_ContainsData(path) ==
    \E i \in 1..(Len(path) - 5) :
        SubSeq(path, i, i + 5) = Slash \o W_data \o Slash

isKVv2Path(path) ==
    /\ Len(path) > 6
    /\ Slice(path, 0, 6) = W_secret
    /\ Len(path) > 12
    /\ Slice(path, 6, 12) = Slash \o W_data \o Slash

prepareDataForKVVersion(path, data) ==
    IF isKVv2Path(path)
    THEN [wrapped |-> TRUE, data |-> data]
    ELSE [wrapped |-> FALSE, data |-> data]

\* path[7:13] holds six characters and is compared with the five of "data/".
preparePathForKVDelete(path) ==
    IF isKVv2Path(path) THEN path
    ELSE IF /\ Len(path) > 7
            /\ Slice(path, 0, 7) = W_secret \o Slash
            /\ (Len(path) <= 12 \/ Slice(path, 7, 13) # W_data \o Slash)
         THEN W_secret \o Slash \o W_data \o Slash \o Slice(path, 7, Len(path))
         ELSE path

\* Outcomes of one call of the client: the limiter's Wait fails (context
\* cancelled), re-authentication fails, the store refuses, or all is well.
ClientOutcomes == {"ok", "rate_limited", "auth_failed", "store_error"}

\* The error texts the store answers with, by outcome of the call.
StoreErrors ==
    "store_error" :> <<"5", "0", "0", " ", "i", "n", "t", "e", "r", "n", "a", "l", " ", "e", "r", "r", "o", "r">>
    @@ "denied" :> <<"C", "o", "d", "e", ":", " ", "4", "0", "3">>
    @@ "missing" :> <<"C", "o", "d", "e", ":", " ", "4", "0", "4">>
    @@ "unreachable" :> <<"i", "/", "o", " ", "t", "i", "m", "e", "o", "u", "t">>
    @@ "missing_denied" :> <<"4", "0", "4", " ", "a", "f", "t", "e", "r", " ", "4", "0", "3">>
    @@ "unreachable_missing" :> <<"t", "i", "m", "e", "o", "u", "t", " ", "o", "n", " ", "4", "0", "4">>

\* The switch of WriteSecret over isPermissionError, isPathError and
\* isConnectionError; containsAny searches the text for each substring.
errorType(errStr) ==
    LET containsAny(str, substrings) ==
            \E substr \in substrings :
                /\ Len(str) >= Len(substr)
                /\ \E i \in 0..(Len(str) - Len(substr)) :
                      Slice(str, i, i + Len(substr)) = substr
    IN  IF containsAny(errStr,
                       {<<"p", "e", "r", "m", "i", "s", "s", "i", "o", "n", " ", "d", "e", "n", "i", "e", "d">>,
                        <<"f", "o", "r", "b", "i", "d", "d", "e", "n">>,
                        <<"4", "0", "3">>})
        THEN "permission_denied"
        ELSE IF containsAny(errStr,
                            {<<"i", "n", "v", "a", "l", "i", "d", " ", "p", "a", "t", "h">>,
                             <<"n", "o", "t", " ", "f", "o", "u", "n", "d">>,
                             <<"4", "0", "4">>})
        THEN "invalid_path"
        ELSE IF containsAny(errStr,
                            {<<"c", "o", "n", "n", "e", "c", "t", "i", "o", "n", " ", "r", "e", "f", "u", "s", "e", "d">>,
                             <<"t", "i", "m", "e", "o", "u", "t">>,
                             <<"n", "e", "t", "w", "o", "r", "k">>})
        THEN "connection_failed"
        ELSE "unknown"

\* isDataTooLarge: the keys' and the string values' lengths, over 1MB.  The
\* value "huge" stands for a string of 1024 * 1024 characters.
isDataTooLarge(data) ==
    LET size(v) == IF v = "huge" THEN 1024 * 1024 ELSE Len(v)
        RECURSIVE total(_)
        total(keys) ==
            IF keys = {} THEN 0
            ELSE LET key == CHOOSE k \in keys : TRUE
                 IN  Len(key)
                     + (IF key \in DOMAIN data.flat THEN size(data.flat[key])
                        ELSE 0)
                     + total(keys \ {key})
    IN  total(DOMAIN data.flat \cup DOMAIN data.nested) > 1024 * 1024

\* WriteSecret that goes on to the store when the limiter's Wait fails.
WriteSecret_LimiterIgnored(st, path, data, outcome) ==
    IF outcome \notin {"ok", "rate_limited"}
    THEN [err |-> TRUE, store |-> st]
    ELSE [err |-> FALSE,
          store |-> MapPut(st, path, prepareDataForKVVersion(path, data))]

\* WriteSecret with the store's error dropped.
WriteSecret_ErrorSwallowed(st, path, data, outcome) ==
    [err |-> FALSE,
     store |-> IF outcome = "ok"
               THEN MapPut(st, path, prepareDataForKVVersion(path, data))
               ELSE st]

\* WriteSecret: [err, store, metric] after the call; metric is the label of
\* the VaultWriteErrors counter it incremented, "none" without one.  A large
\* payload goes through writeSecretOptimized.
WriteSecret(st, path, data, outcome) ==
    LET failed(metric) == [err |-> TRUE, store |-> st, metric |-> metric]
    IN  IF outcome = "rate_limited" THEN failed("none")
        ELSE IF outcome = "auth_failed" THEN failed("auth_failed")
        ELSE IF outcome = "ok"
        THEN [err |-> FALSE,
              store |-> MapPut(st, path, prepareDataForKVVersion(path, data)),
              metric |-> "none"]
        ELSE IF isDataTooLarge(data) THEN failed("none")
        ELSE failed(errorType(StoreErrors[outcome]))

\* DeleteSecret with the store's error dropped.
DeleteSecret_ErrorSwallowed(st, path, outcome) ==
    [err |-> FALSE,
     store |-> IF outcome = "ok" THEN MapDel(st, preparePathForKVDelete(path))
               ELSE st]

\* DeleteSecret that fails when the store holds nothing at the path.
DeleteSecret_AbsentIsError(st, path, outcome) ==
    IF outcome # "ok" \/ preparePathForKVDelete(path) \notin DOMAIN st
    THEN [err |-> TRUE, store |-> st]
    ELSE [err |-> FALSE, store |-> MapDel(st, preparePathForKVDelete(path))]

\* DeleteSecret: [err, store] after the call.
DeleteSecret(st, path, outcome) ==
    IF outcome # "ok"
    THEN [err |-> TRUE, store |-> st]
    ELSE [err |-> FALSE, store |-> MapDel(st, preparePathForKVDelete(path))]

(***************************************************************************)
(* The cluster's objects.                                                  *)
(***************************************************************************)
TargetName == "t"
OtherName == "a"
\* The order encoding/json writes the names of a map in (sorted).
NameOrder == <<"a", "t">>

Keys == {"k1", "k2"}
DataChoices == {("k1" :> "u"), ("k1" :> "p"), ("k1" :> "u") @@ ("k2" :> "p")}

\* The explicit-config annotation's text: malformed JSON, or a JSON array
\* of {name, keys, prefix} entries.
Entry(name, keys, prefix) == [name |-> name, keys |-> keys, prefix |-> prefix]
CfgInvalid == [form |-> "invalid", entries |-> <<>>]
CfgEmpty == [form |-> "empty", entries |-> <<>>]
CfgArray(entries) == [form |-> "array", entries |-> entries]
CfgOther == CfgArray(<<Entry(OtherName, <<"k1">>, "app_")>>)
CfgOtherBoth == CfgArray(<<Entry(OtherName, <<"k1">>, "app_"),
                           Entry(OtherName, <<"k1", "k2">>, "")>>)
CfgChoices == {CfgOther, CfgOtherBoth, CfgInvalid}

\* The pod template of a Deployment.  An item is one env entry, one envFrom
\* entry or one volume: src tells whether it names a secret ("secret": a
\* non-nil SecretKeyRef, SecretRef or Secret) or something else.
Item(src, name) == [src |-> src, name |-> name]
Container(env, envFrom) == [env |-> env, envFrom |-> envFrom]
Template(containers, initContainers, volumes) ==
    [containers |-> containers, initContainers |-> initContainers,
     volumes |-> volumes]
NoTemplate == Template(<<>>, <<>>, <<>>)
TemplateChoices ==
    {Template(<<Container(<<Item("secret", OtherName)>>, <<>>)>>, <<>>, <<>>)}

\* client.Get of a Secret by name: [found, name, rv, data].
NotFound == [found |-> FALSE, name |-> "", rv |-> 0, data |-> EmptyMap]
GetSecret(name) ==
    IF name = OtherName /\ other.exists
    THEN [found |-> TRUE, name |-> name, rv |-> other.rv, data |-> other.data]
    ELSE IF name = TargetName /\ target.kind = "secret" /\ target.exists
    THEN [found |-> TRUE, name |-> name, rv |-> target.rv, data |-> target.data]
    ELSE NotFound

(***************************************************************************)
(* The version-snapshot annotation: its text and the conversions.          *)
(***************************************************************************)
VersionsText(form, pairs) == [form |-> form, pairs |-> pairs]

RECURSIVE MarshalPairs(_, _)
MarshalPairs(versions, i) ==
    IF i > Len(NameOrder) THEN <<>>
    ELSE (IF NameOrder[i] \in DOMAIN versions
          THEN <<<<NameOrder[i], versions[NameOrder[i]]>>>>
          ELSE <<>>) \o MarshalPairs(versions, i + 1)

\* json.Marshal of a map[string]string.
MarshalVersions(versions) == VersionsText("object", MarshalPairs(versions, 1))

RECURSIVE UnmarshalPairs(_)
UnmarshalPairs(pairs) ==
    IF pairs = <<>> THEN EmptyMap
    ELSE MapPut(UnmarshalPairs(Tail(pairs)), Head(pairs)[1], Head(pairs)[2])

\* ParseSecretVersionsAnnotation: "", "null", malformed text and "{}" all
\* read as the empty map; no error is raised.
ParseSecretVersionsAnnotation(text) ==
    IF text.form = "object" THEN UnmarshalPairs(text.pairs) ELSE EmptyMap

\* getLastKnownSecretVersions
getLastKnownSecretVersions(secret) ==
    IF ~Has(secret.ann, VaultSecretVersionsAnnotation)
    THEN EmptyMap
    ELSE ParseSecretVersionsAnnotation(secret.ann[VaultSecretVersionsAnnotation])

RotationChoices == {"disabled", "enabled"}

\* isRotationCheckDisabled taking any value of the annotation for "disabled".
isRotationCheckDisabled_AnyValue(secret) ==
    Has(secret.ann, VaultRotationCheckAnnotation)

\* isRotationCheckDisabled
isRotationCheckDisabled(secret) ==
    /\ Has(secret.ann, VaultRotationCheckAnnotation)
    /\ secret.ann[VaultRotationCheckAnnotation] = "disabled"

(***************************************************************************)
(* internal/controller/deployment_controller.go: the Sync Planner.         *)
(***************************************************************************)
\* The loop over secretConfig.Keys passing over a key the secret lacks.
RECURSIVE CollectKeys_MissingKeySkipped(_, _, _, _)
CollectKeys_MissingKeySkipped(keys, prefix, secretData, data) ==
    IF keys = <<>> THEN [err |-> FALSE, data |-> data]
    ELSE LET key == Head(keys)
             vaultKey == IF prefix # "" THEN prefix \o key ELSE key
         IN  CollectKeys_MissingKeySkipped(
                 Tail(keys), prefix, secretData,
                 IF key \in DOMAIN secretData
                 THEN MapPut(data, vaultKey, secretData[key]) ELSE data)

\* The loop over secretConfig.Keys writing every key without the prefix.
RECURSIVE CollectKeys_PrefixDropped(_, _, _, _)
CollectKeys_PrefixDropped(keys, prefix, secretData, data) ==
    IF keys = <<>> THEN [err |-> FALSE, data |-> data]
    ELSE IF Head(keys) \in DOMAIN secretData
         THEN CollectKeys_PrefixDropped(
                  Tail(keys), prefix, secretData,
                  MapPut(data, Head(keys), secretData[Head(keys)]))
         ELSE [err |-> TRUE, data |-> data]

\* The loop over secretConfig.Keys keeping the value a key already has.
RECURSIVE CollectKeys_FirstKept(_, _, _, _)
CollectKeys_FirstKept(keys, prefix, secretData, data) ==
    IF keys = <<>> THEN [err |-> FALSE, data |-> data]
    ELSE LET key == Head(keys)
             vaultKey == IF prefix # "" THEN prefix \o key ELSE key
         IN  IF key \in DOMAIN secretData
             THEN CollectKeys_FirstKept(
                      Tail(keys), prefix, secretData,
                      IF vaultKey \in DOMAIN data THEN data
                      ELSE MapPut(data, vaultKey, secretData[key]))
             ELSE [err |-> TRUE, data |-> data]

\* The loop over secretConfig.Keys: [err, data].
RECURSIVE CollectKeys(_, _, _, _)
CollectKeys(keys, prefix, secretData, data) ==
    IF keys = <<>> THEN [err |-> FALSE, data |-> data]
    ELSE LET key == Head(keys)
             vaultKey == IF prefix # "" THEN prefix \o key ELSE key
         IN  IF key \in DOMAIN secretData
             THEN CollectKeys(Tail(keys), prefix, secretData,
                              MapPut(data, vaultKey, secretData[key]))
             ELSE [err |-> TRUE, data |-> data]

\* The loop over secretConfigs: [err, data].
RECURSIVE CollectEntries(_, _)
CollectEntries(entries, data) ==
    IF entries = <<>> THEN [err |-> FALSE, data |-> data]
    ELSE LET e == Head(entries)
             secret == GetSecret(e.name)
         IN  IF ~secret.found THEN [err |-> TRUE, data |-> data]
             ELSE LET r == CollectKeys(e.keys, e.prefix, secret.data, data)
                  IN  IF r.err THEN r ELSE CollectEntries(Tail(entries), r.data)

\* syncCustomSecrets: [err, data]; a parse error, a missing secret and a
\* missing key all fail the call.
syncCustomSecrets(cfg) ==
    IF cfg.form # "array"
    THEN [err |-> TRUE, data |-> Payload(EmptyMap, EmptyMap)]
    ELSE LET r == CollectEntries(cfg.entries, EmptyMap)
         IN  [err |-> r.err, data |-> Payload(r.data, EmptyMap)]

\* One loop over env entries, envFrom entries or volumes: the names of the
\* items that refer to a secret are added to secretNames.
RECURSIVE AddSecretRefs(_, _)
AddSecretRefs(items, secretNames) ==
    IF items = <<>> THEN secretNames
    ELSE AddSecretRefs(Tail(items),
                       IF Head(items).src = "secret"
                       THEN secretNames \cup {Head(items).name}
                       ELSE secretNames)

\* The loop over containers (or init containers): env, then envFrom.
RECURSIVE AddContainers(_, _)
AddContainers(containers, secretNames) ==
    IF containers = <<>> THEN secretNames
    ELSE AddContainers(
             Tail(containers),
             AddSecretRefs(Head(containers).envFrom,
                           AddSecretRefs(Head(containers).env, secretNames)))

\* extractSecretNamesFromPodTemplate that looks at the containers only.
extractSecretNamesFromPodTemplate_ContainersOnly(podTemplate) ==
    AddContainers(podTemplate.containers, {})

\* extractSecretNamesFromPodTemplate
extractSecretNamesFromPodTemplate(podTemplate) ==
    AddSecretRefs(podTemplate.volumes,
                  AddContainers(podTemplate.initContainers,
                                AddContainers(podTemplate.containers, {})))

\* syncAutoDiscoveredSecrets: every discovered secret's keys as one nested
\* object under the secret's name.
syncAutoDiscoveredSecrets(deployment) ==
    LET secretNames == extractSecretNamesFromPodTemplate(deployment.template)
    IN  IF \E n \in secretNames : ~GetSecret(n).found
        THEN [err |-> TRUE, data |-> Payload(EmptyMap, EmptyMap)]
        ELSE [err |-> FALSE,
              data |-> Payload(EmptyMap,
                               [n \in secretNames |-> GetSecret(n).data])]

(***************************************************************************)
(* The SyncContext helpers the SecretReconciler calls.                     *)
(***************************************************************************)
\* Resolve without the slash between the cluster tag and the logical path.
Resolve_NoSeparator(logicalPath, clusterTag) ==
    IF clusterTag # <<>>
    THEN W_clusters \o Slash \o clusterTag \o logicalPath
    ELSE logicalPath

\* Resolve: the physical path of a logical path.
Resolve(logicalPath, clusterTag) ==
    IF clusterTag # <<>>
    THEN W_clusters \o Slash \o clusterTag \o Slash \o logicalPath
    ELSE logicalPath

\* The secret names an explicit config refers to.
EntryNames(entries) == {entries[i].name : i \in 1..Len(entries)}

\* SyncCustomSecretsWithVersions: [err, data, versions].
SyncCustomSecretsWithVersions(cfg) ==
    LET r == syncCustomSecrets(cfg)
    IN  IF r.err THEN [err |-> TRUE, data |-> r.data, versions |-> EmptyMap]
        ELSE [err |-> FALSE, data |-> r.data,
              versions |-> [n \in EntryNames(cfg.entries) |-> GetSecret(n).rv]]

\* SyncAllSecretKeys: every key of the Secret itself, and its own version.
SyncAllSecretKeys(secret) ==
    [err |-> FALSE, data |-> Payload(secret.data, EmptyMap),
     versions |-> (TargetName :> secret.rv)]

\* DetectSecretChanges that does not look for names that have gone.
DetectSecretChanges_RemovedIgnored(lastVersions, currentVersions) ==
    \/ DOMAIN lastVersions = {}
    \/ \E n \in DOMAIN currentVersions :
          n \notin DOMAIN lastVersions \/ lastVersions[n] # currentVersions[n]

\* DetectSecretChanges (HasChanged).
DetectSecretChanges(lastVersions, currentVersions) ==
    \/ DOMAIN lastVersions = {}
    \/ \E n \in DOMAIN currentVersions :
          n \notin DOMAIN lastVersions \/ lastVersions[n] # currentVersions[n]
    \/ \E n \in DOMAIN lastVersions : n \notin DOMAIN currentVersions

\* GetChangedSecrets that leaves out the names that have gone.
GetChangedSecrets_RemovedLeftOut(lastVersions, currentVersions, order) ==
    SelectSeq(order.current,
              LAMBDA n : /\ n \in DOMAIN currentVersions
                         /\ \/ n \notin DOMAIN lastVersions
                            \/ lastVersions[n] # currentVersions[n])

\* GetChangedSecrets (Diff): the names of currentVersions that are new or
\* whose token differs, then the names of lastVersions that have gone, each
\* with " (removed)" appended.  order: the order in which Go happens to
\* range over either map.
GetChangedSecrets(lastVersions, currentVersions, order) ==
    LET RECURSIVE removed(_)
        removed(names) ==
            IF names = <<>> THEN <<>>
            ELSE (IF /\ Head(names) \in DOMAIN lastVersions
                     /\ Head(names) \notin DOMAIN currentVersions
                  THEN <<Head(names) \o " (removed)">>
                  ELSE <<>>) \o removed(Tail(names))
    IN  SelectSeq(order.current,
                  LAMBDA n : /\ n \in DOMAIN currentVersions
                             /\ \/ n \notin DOMAIN lastVersions
                                \/ lastVersions[n] # currentVersions[n])
        \o removed(order.last)

\* WriteSecretToVault and DeleteSecretFromVault: the client's call on the
\* resolved path.
WriteSecretToVault(st, vaultPath, data, outcome) ==
    WriteSecret(st, Resolve(vaultPath, clusterName), data, outcome)

DeleteSecretFromVault(st, vaultPath, outcome) ==
    DeleteSecret(st, Resolve(vaultPath, clusterName), outcome)

(***************************************************************************)
(* The API server's Update of the target.                                  *)
(***************************************************************************)
\* What is left of an object once its last finalizer is gone under a
\* deletion marker.  held: metadata.finalizers names a finalizer of another
\* controller.
Gone(obj) ==
    [obj EXCEPT !.exists = FALSE, !.fin = FALSE, !.held = FALSE,
                 !.ann = EmptyMap]

\* client.Update(local) against the stored object: [err, obj].  A Secret's
\* resourceVersion changes with every update that changes the object; a
\* Deployment's is read by nobody and is left out.
Update(stored, local, ok) ==
    IF ~ok THEN [err |-> TRUE, obj |-> stored]
    ELSE IF local.del /\ ~local.fin /\ ~local.held
         THEN [err |-> FALSE, obj |-> Gone(local)]
    ELSE IF local = stored \/ stored.kind # "secret"
         THEN [err |-> FALSE, obj |-> local]
         ELSE [err |-> FALSE, obj |-> [local EXCEPT !.rv = stored.rv + 1]]

\* controllerutil.AddFinalizer and RemoveFinalizer on the local copy.
AddFinalizer(obj) == [obj EXCEPT !.fin = TRUE]

\* RemoveFinalizer that leaves the finalizer in place.
RemoveFinalizer_Forgotten(obj) == obj

RemoveFinalizer(obj) == [obj EXCEPT !.fin = FALSE]

\* UpdateSecretVersionsAnnotation: [err, obj].
UpdateSecretVersionsAnnotation(stored, local, versions, ok) ==
    Update(stored,
           [local EXCEPT !.ann = MapPut(local.ann, VaultSecretVersionsAnnotation,
                                        MarshalVersions(versions))],
           ok)

(***************************************************************************)
(* What a Reconcile call did and returned.                                 *)
(***************************************************************************)
\* call: the reconciler; branch: the path taken through it; err: whether an
\* error was returned; writeCalls, deleteCalls: the store calls issued;
\* outcome: whether the store call ended "ok" or "failed" ("none" without
\* one); planned: the version map Plan read; unchanged: whether the sync
\* step found a snapshot that names the versions Plan read; read: the text
\* of the snapshot annotation the sync step read (form "none" without one,
\* "absent" when the target has no such annotation); resumed: whether the
\* call before this one was cut short by a crash.
Result(call, branch, err, requeueAfter, writeCalls, deleteCalls, planned) ==
    [call |-> call, branch |-> branch, err |-> err,
     requeueAfter |-> requeueAfter,
     writeCalls |-> writeCalls, deleteCalls |-> deleteCalls,
     outcome |-> "none", planned |-> planned, unchanged |-> FALSE,
     read |-> VersionsText("none", <<>>), resumed |-> FALSE]
NoResult == Result("none", "none", FALSE, 0, 0, 0, EmptyMap)

\* The effect of a call: the target as stored afterwards, the store
\* afterwards, and the result.
Effect(obj, st, result) == [obj |-> obj, store |-> st, res |-> result]

(***************************************************************************)
(* internal/controller/secret_controller.go                                *)
(***************************************************************************)
\* time.ParseDuration, in whole seconds: an optional sign, then "0" or one
\* or more groups of decimal digits and a unit.  [err, d].  The annotation
\* values of the model carry no fraction and no unit below the second.
\* leadingInt: the digits at the start of a text as a number, and the rest;
\* leadingUnit: the unit at its start, everything up to the next digit.
ParseDuration(s) ==
    LET digit == [c \in {"0", "1", "2", "3", "4", "5", "6", "7", "8", "9"} |->
                    CASE c = "0" -> 0 [] c = "1" -> 1 [] c = "2" -> 2
                      [] c = "3" -> 3 [] c = "4" -> 4 [] c = "5" -> 5
                      [] c = "6" -> 6 [] c = "7" -> 7 [] c = "8" -> 8
                      [] c = "9" -> 9]
        unitMap == <<"s">> :> 1 @@ <<"m">> :> 60 @@ <<"h">> :> 3600
        RECURSIVE leadingInt(_, _)
        leadingInt(t, x) ==
            IF t # <<>> /\ Head(t) \in DOMAIN digit
            THEN leadingInt(Tail(t), x * 10 + digit[Head(t)])
            ELSE [x |-> x, rem |-> t]
        RECURSIVE leadingUnit(_, _)
        leadingUnit(t, u) ==
            IF t # <<>> /\ Head(t) \notin DOMAIN digit
            THEN leadingUnit(Tail(t), Append(u, Head(t)))
            ELSE [u |-> u, rem |-> t]
        RECURSIVE groups(_, _)
        groups(t, d) ==
            IF t = <<>> THEN [err |-> FALSE, d |-> d]
            ELSE LET v == leadingInt(t, 0)
                     unit == leadingUnit(v.rem, <<>>)
                 IN  IF v.rem = t \/ unit.u \notin DOMAIN unitMap
                     THEN [err |-> TRUE, d |-> 0]
                     ELSE groups(unit.rem, d + v.x * unitMap[unit.u])
        neg == s # <<>> /\ Head(s) = "-"
        body == IF s # <<>> /\ Head(s) \in {"-", "+"} THEN Tail(s) ELSE s
        parsed == groups(body, 0)
    IN  IF body = <<"0">> THEN [err |-> FALSE, d |-> 0]
        ELSE IF body = <<>> \/ parsed.err THEN [err |-> TRUE, d |-> 0]
        ELSE [err |-> FALSE, d |-> IF neg THEN 0 - parsed.d ELSE parsed.d]

W_off == <<"o", "f", "f">>
W_10s == <<"1", "0", "s">>
W_30s == <<"3", "0", "s">>
ReconcileChoices == {W_10s, W_30s, <<"b", "o", "g", "u", "s">>}
MinReconcileInterval == 30

\* getReconcileInterval without the minimum.
getReconcileInterval_NoMinimum(secret) ==
    LET reconcileValue == Get(secret.ann, VaultReconcileAnnotation, <<>>)
    IN  IF \/ ~Has(secret.ann, VaultReconcileAnnotation)
           \/ reconcileValue = <<>>
           \/ reconcileValue = W_off
        THEN 0
        ELSE LET parsed == ParseDuration(reconcileValue)
             IN  IF parsed.err THEN 0 ELSE parsed.d

\* getReconcileInterval, in seconds
getReconcileInterval(secret) ==
    LET reconcileValue == Get(secret.ann, VaultReconcileAnnotation, <<>>)
    IN  IF \/ ~Has(secret.ann, VaultReconcileAnnotation)
           \/ reconcileValue = <<>>
           \/ reconcileValue = W_off
        THEN 0
        ELSE LET parsed == ParseDuration(reconcileValue)
             IN  IF parsed.err THEN 0
                 ELSE IF parsed.d < MinReconcileInterval
                      THEN MinReconcileInterval
                      ELSE parsed.d

\* SecretReconciler.handleDeletion
SecretReconciler_handleDeletion(secret, st, out, updateOk) ==
    IF secret.fin
    THEN LET preserveOnDelete ==
                 Get(secret.ann, VaultPreserveOnDeleteAnnotation, "") = "true"
             vaultPath == Get(secret.ann, VaultPathAnnotation, EmptyPath)
             cleanup == /\ Has(secret.ann, VaultPathAnnotation)
                        /\ vaultPath # EmptyPath
                        /\ ~preserveOnDelete
             d == IF cleanup THEN DeleteSecretFromVault(st, vaultPath, out)
                  ELSE [err |-> FALSE, store |-> st]
             calls == IF cleanup THEN 1 ELSE 0
         IN  IF d.err
             THEN Effect(secret, st,
                         Result("secret", "delete_failed", TRUE, 0, 0, calls,
                                EmptyMap))
             ELSE LET u == Update(secret, RemoveFinalizer(secret), updateOk)
                  IN  Effect(u.obj, d.store,
                             Result("secret",
                                    IF cleanup THEN "deletion_cleanup"
                                    ELSE "deletion_preserved",
                                    u.err, 0, 0, calls, EmptyMap))
    ELSE Effect(secret, st,
                Result("secret", "deletion_noop", FALSE, 0, 0, 0, EmptyMap))

\* SecretReconciler.syncSecretToVault, "Check if custom secrets
\* configuration is provided": [err, data, versions].
SecretReconciler_plan(secret) ==
    LET secretsToSync == Get(secret.ann, VaultSecretsAnnotation, CfgEmpty)
    IN  IF Has(secret.ann, VaultSecretsAnnotation) /\ secretsToSync # CfgEmpty
        THEN SyncCustomSecretsWithVersions(secretsToSync)
        ELSE SyncAllSecretKeys(secret)

\* syncSecretToVault that fails when the snapshot annotation is present and
\* is not a JSON object.
syncSecretToVault_StrictSnapshot(secret, st, out, updateOk) ==
    LET vaultPath == secret.ann[VaultPathAnnotation]
        plan == SecretReconciler_plan(secret)
        lastKnownVersions == getLastKnownSecretVersions(secret)
        detected == DetectSecretChanges(lastKnownVersions, plan.versions)
        hasChanges == IF isRotationCheckDisabled(secret) THEN TRUE
                      ELSE detected
        Done(branch, err, writeCalls) ==
            [Result("secret", branch, err, 0, writeCalls, 0, plan.versions)
                EXCEPT !.unchanged = ~detected,
                       !.read = Get(secret.ann, VaultSecretVersionsAnnotation,
                                    VersionsText("absent", <<>>))]
    IN  IF plan.err
        THEN Effect(secret, st,
                    Result("secret", "plan_failed", TRUE, 0, 0, 0, EmptyMap))
        ELSE IF /\ Has(secret.ann, VaultSecretVersionsAnnotation)
                /\ secret.ann[VaultSecretVersionsAnnotation].form # "object"
        THEN Effect(secret, st, Done("snapshot_unreadable", TRUE, 0))
        ELSE IF ~hasChanges /\ DOMAIN lastKnownVersions # {}
        THEN Effect(secret, st, Done("skipped", FALSE, 0))
        ELSE LET w == WriteSecretToVault(st, vaultPath, plan.data, out)
             IN  IF w.err
                 THEN Effect(secret, st, Done("write_failed", TRUE, 1))
                 ELSE LET u == UpdateSecretVersionsAnnotation(
                                   secret, secret, plan.versions, updateOk)
                      IN  Effect(u.obj, w.store,
                                 Done(IF u.err THEN "synced_snapshot_failed"
                                      ELSE "synced",
                                      FALSE, 1))

\* syncSecretToVault that returns the error of the snapshot update.
syncSecretToVault_SnapshotFatal(secret, st, out, updateOk) ==
    LET vaultPath == secret.ann[VaultPathAnnotation]
        plan == SecretReconciler_plan(secret)
        lastKnownVersions == getLastKnownSecretVersions(secret)
        detected == DetectSecretChanges(lastKnownVersions, plan.versions)
        hasChanges == IF isRotationCheckDisabled(secret) THEN TRUE
                      ELSE detected
        Done(branch, err, writeCalls) ==
            [Result("secret", branch, err, 0, writeCalls, 0, plan.versions)
                EXCEPT !.unchanged = ~detected,
                       !.read = Get(secret.ann, VaultSecretVersionsAnnotation,
                                    VersionsText("absent", <<>>))]
    IN  IF plan.err
        THEN Effect(secret, st,
                    Result("secret", "plan_failed", TRUE, 0, 0, 0, EmptyMap))
        ELSE IF ~hasChanges /\ DOMAIN lastKnownVersions # {}
        THEN Effect(secret, st, Done("skipped", FALSE, 0))
        ELSE LET w == WriteSecretToVault(st, vaultPath, plan.data, out)
             IN  IF w.err
                 THEN Effect(secret, st, Done("write_failed", TRUE, 1))
                 ELSE LET u == UpdateSecretVersionsAnnotation(
                                   secret, secret, plan.versions, updateOk)
                      IN  Effect(u.obj, w.store,
                                 Done(IF u.err THEN "synced_snapshot_failed"
                                      ELSE "synced",
                                      u.err, 1))

\* SecretReconciler.syncSecretToVault; the requeue delay is added by Reconcile.
syncSecretToVault(secret, st, out, updateOk) ==
    LET vaultPath == secret.ann[VaultPathAnnotation]
        plan == SecretReconciler_plan(secret)
        lastKnownVersions == getLastKnownSecretVersions(secret)
        detected == DetectSecretChanges(lastKnownVersions, plan.versions)
        hasChanges == IF isRotationCheckDisabled(secret) THEN TRUE
                      ELSE detected
        Done(branch, err, writeCalls) ==
            [Result("secret", branch, err, 0, writeCalls, 0, plan.versions)
                EXCEPT !.unchanged = ~detected,
                       !.read = Get(secret.ann, VaultSecretVersionsAnnotation,
                                    VersionsText("absent", <<>>))]
    IN  IF plan.err
        THEN Effect(secret, st,
                    Result("secret", "plan_failed", TRUE, 0, 0, 0, EmptyMap))
        ELSE IF ~hasChanges /\ DOMAIN lastKnownVersions # {}
        THEN Effect(secret, st, Done("skipped", FALSE, 0))
        ELSE LET w == WriteSecretToVault(st, vaultPath, plan.data, out)
             IN  IF w.err
                 THEN Effect(secret, st, Done("write_failed", TRUE, 1))
                 ELSE LET u == UpdateSecretVersionsAnnotation(
                                   secret, secret, plan.versions, updateOk)
                      IN  Effect(u.obj, w.store,
                                 Done(IF u.err THEN "synced_snapshot_failed"
                                      ELSE "synced",
                                      FALSE, 1))

\* "Add finalizer if not present" without the return: the sync follows in
\* the same call.
SecretReconciler_ensureFinalizer_ThenSync(secret, st, out, updateOk) ==
    LET u == Update(secret, AddFinalizer(secret), updateOk)
    IN  IF u.err
        THEN Effect(u.obj, st,
                    Result("secret", "add_finalizer", TRUE, 0, 0, 0, EmptyMap))
        ELSE syncSecretToVault(u.obj, st, out, updateOk)

\* SecretReconciler.Reconcile, "Add finalizer if not present": the finalizer
\* is persisted and the call returns.
SecretReconciler_ensureFinalizer(secret, st, out, updateOk) ==
    LET u == Update(secret, AddFinalizer(secret), updateOk)
    IN  Effect(u.obj, st,
               Result("secret", "add_finalizer", u.err, 0, 0, 0, EmptyMap))

\* SecretReconciler.Reconcile that returns at once for a target without a
\* logical path, whether it holds the finalizer or not.
SecretReconciler_Reconcile_DisabledIgnored(secret, st, out, updateOk) ==
    IF ~secret.exists
    THEN Effect(secret, st,
                Result("secret", "not_found", FALSE, 0, 0, 0, EmptyMap))
    ELSE IF \/ ~Has(secret.ann, VaultPathAnnotation)
            \/ secret.ann[VaultPathAnnotation] = EmptyPath
    THEN Effect(secret, st,
                Result("secret", "disabled_noop", FALSE, 0, 0, 0, EmptyMap))
    ELSE IF secret.del
    THEN SecretReconciler_handleDeletion(secret, st, out, updateOk)
    ELSE IF ~secret.fin
    THEN SecretReconciler_ensureFinalizer(secret, st, out, updateOk)
    ELSE LET e == syncSecretToVault(secret, st, out, updateOk)
         IN  IF e.res.err THEN e
             ELSE [e EXCEPT !.res.requeueAfter = getReconcileInterval(secret)]

\* SecretReconciler.Reconcile
SecretReconciler_Reconcile(secret, st, out, updateOk) ==
    IF ~secret.exists
    THEN Effect(secret, st,
                Result("secret", "not_found", FALSE, 0, 0, 0, EmptyMap))
    ELSE IF \/ ~Has(secret.ann, VaultPathAnnotation)
            \/ secret.ann[VaultPathAnnotation] = EmptyPath
    THEN IF secret.fin
         THEN LET u == Update(secret, RemoveFinalizer(secret), updateOk)
              IN  Effect(u.obj, st,
                         Result("secret", "disabled_remove_finalizer", u.err,
                                0, 0, 0, EmptyMap))
         ELSE Effect(secret, st,
                     Result("secret", "disabled_noop", FALSE, 0, 0, 0, EmptyMap))
    ELSE IF secret.del
    THEN SecretReconciler_handleDeletion(secret, st, out, updateOk)
    ELSE IF ~secret.fin
    THEN SecretReconciler_ensureFinalizer(secret, st, out, updateOk)
    ELSE LET e == syncSecretToVault(secret, st, out, updateOk)
         IN  IF e.res.err THEN e
             ELSE [e EXCEPT !.res.requeueAfter = getReconcileInterval(secret)]

(***************************************************************************)
(* internal/controller/deployment_controller.go                            *)
(***************************************************************************)
\* DeploymentReconciler.handleDeletion
DeploymentReconciler_handleDeletion(deployment, st, out, updateOk) ==
    IF deployment.fin
    THEN LET vaultPath == Get(deployment.ann, VaultPathAnnotation, EmptyPath)
             cleanup == /\ Has(deployment.ann, VaultPathAnnotation)
                        /\ vaultPath # EmptyPath
             d == IF cleanup THEN DeleteSecret(st, vaultPath, out)
                  ELSE [err |-> FALSE, store |-> st]
             calls == IF cleanup THEN 1 ELSE 0
         IN  IF d.err
             THEN Effect(deployment, st,
                         Result("deployment", "delete_failed", TRUE, 0, 0,
                                calls, EmptyMap))
             ELSE LET u == Update(deployment,
                                  RemoveFinalizer(deployment), updateOk)
                  IN  Effect(u.obj, d.store,
                             Result("deployment", "deletion_cleanup", u.err,
                                    0, 0, calls, EmptyMap))
    ELSE Effect(deployment, st,
                Result("deployment", "deletion_noop", FALSE, 0, 0, 0, EmptyMap))

\* DeploymentReconciler.syncSecretsToVault, "Check if custom secrets
\* configuration is provided": [err, data].
DeploymentReconciler_plan(deployment) ==
    LET secretsToSync == Get(deployment.ann, VaultSecretsAnnotation, CfgEmpty)
    IN  IF Has(deployment.ann, VaultSecretsAnnotation) /\ secretsToSync # CfgEmpty
        THEN syncCustomSecrets(secretsToSync)
        ELSE syncAutoDiscoveredSecrets(deployment)

\* DeploymentReconciler.syncSecretsToVault
syncSecretsToVault(deployment, st, out) ==
    LET vaultPath == deployment.ann[VaultPathAnnotation]
        plan == DeploymentReconciler_plan(deployment)
    IN  IF plan.err
        THEN Effect(deployment, st,
                    Result("deployment", "plan_failed", TRUE, 0, 0, 0, EmptyMap))
        ELSE LET w == WriteSecret(st, vaultPath, plan.data, out)
             IN  IF w.err
                 THEN Effect(deployment, st,
                             Result("deployment", "write_failed", TRUE, 0, 1, 0,
                                    EmptyMap))
                 ELSE Effect(deployment, w.store,
                             Result("deployment", "synced", FALSE, 0, 1, 0,
                                    EmptyMap))

\* DeploymentReconciler.Reconcile that adds the finalizer before it looks
\* at the deletion marker.
DeploymentReconciler_Reconcile_FinalizerFirst(deployment, st, out, updateOk) ==
    IF ~deployment.exists
    THEN Effect(deployment, st,
                Result("deployment", "not_found", FALSE, 0, 0, 0, EmptyMap))
    ELSE IF \/ ~Has(deployment.ann, VaultPathAnnotation)
            \/ deployment.ann[VaultPathAnnotation] = EmptyPath
    THEN IF deployment.fin
         THEN LET u == Update(deployment,
                              RemoveFinalizer(deployment), updateOk)
              IN  Effect(u.obj, st,
                         Result("deployment", "disabled_remove_finalizer",
                                u.err, 0, 0, 0, EmptyMap))
         ELSE Effect(deployment, st,
                     Result("deployment", "disabled_noop", FALSE, 0, 0, 0,
                            EmptyMap))
    ELSE IF ~deployment.fin
    THEN LET u == Update(deployment, AddFinalizer(deployment), updateOk)
         IN  Effect(u.obj, st,
                    Result("deployment", "add_finalizer", u.err, 0, 0, 0,
                           EmptyMap))
    ELSE IF deployment.del
    THEN DeploymentReconciler_handleDeletion(deployment, st, out, updateOk)
    ELSE syncSecretsToVault(deployment, st, out)

\* DeploymentReconciler.Reconcile
DeploymentReconciler_Reconcile(deployment, st, out, updateOk) ==
    IF ~deployment.exists
    THEN Effect(deployment, st,
                Result("deployment", "not_found", FALSE, 0, 0, 0, EmptyMap))
    ELSE IF \/ ~Has(deployment.ann, VaultPathAnnotation)
            \/ deployment.ann[VaultPathAnnotation] = EmptyPath
    THEN IF deployment.fin
         THEN LET u == Update(deployment,
                              RemoveFinalizer(deployment), updateOk)
              IN  Effect(u.obj, st,
                         Result("deployment", "disabled_remove_finalizer",
                                u.err, 0, 0, 0, EmptyMap))
         ELSE Effect(deployment, st,
                     Result("deployment", "disabled_noop", FALSE, 0, 0, 0,
                            EmptyMap))
    ELSE IF deployment.del
    THEN DeploymentReconciler_handleDeletion(deployment, st, out, updateOk)
    ELSE IF ~deployment.fin
    THEN LET u == Update(deployment, AddFinalizer(deployment), updateOk)
         IN  Effect(u.obj, st,
                    Result("deployment", "add_finalizer", u.err, 0, 0, 0,
                           EmptyMap))
    ELSE syncSecretsToVault(deployment, st, out)

(***************************************************************************)
(* The state machine.                                                      *)
(***************************************************************************)
\* A function applied on its own: its arguments, whether it has been
\* applied, and its result.
Probe(last, current) ==
    [fn |-> "DetectSecretChanges", last |-> last, current |-> current,
     done |-> FALSE, out |-> FALSE]
NoProbe == Probe(EmptyMap, EmptyMap)

\* The vault client with no call in progress.
NoWriter == [tokens |-> 0, mutex |-> "free", calls |-> <<>>, log |-> <<>>]

NewTarget(kind, template) ==
    [exists |-> TRUE, kind |-> kind,
     ann |-> (VaultPathAnnotation :> PathKV2),
     fin |-> FALSE, held |-> FALSE, del |-> FALSE, rv |-> 1,
     data |-> IF kind = "secret" THEN ("k1" :> "u") ELSE EmptyMap,
     template |-> template]

\* The DeploymentReconciler has no cluster name; the SecretReconciler's is
\* set when the process starts.
Init ==
    /\ \E created \in {NewTarget("secret", NoTemplate)}
                      \cup {NewTarget("deployment", t) : t \in TemplateChoices} :
           target \in {[created EXCEPT !.held = h] : h \in BOOLEAN}
    /\ other = [exists |-> TRUE, rv |-> 1, data |-> ("k1" :> "u")]
    /\ store = EmptyMap
    /\ clusterName \in IF target.kind = "secret" THEN ClusterChoices ELSE {<<>>}
    /\ res = NoResult
    /\ edits = 0
    /\ written = {}
    /\ tampered = FALSE
    /\ probe = NoProbe
    /\ writer = NoWriter

\* The store path the target's reconciler writes to: the SecretReconciler
\* resolves the logical path, the DeploymentReconciler passes it as it is.
PhysicalPath(obj) ==
    IF obj.kind = "secret"
    THEN Resolve(obj.ann[VaultPathAnnotation], clusterName)
    ELSE obj.ann[VaultPathAnnotation]

\* The work queue calls Reconcile for the target.
ReconcileEffect(out, updateOk) ==
    IF target.kind = "secret"
    THEN SecretReconciler_Reconcile(target, store, out, updateOk)
    ELSE DeploymentReconciler_Reconcile(target, store, out, updateOk)

\* The outcomes the store call of this Reconcile can have: all of them
\* when the call is made, and nothing to choose when it is not.
StoreOutcomes ==
    LET r == ReconcileEffect("ok", TRUE).res
    IN  IF r.writeCalls + r.deleteCalls > 0 THEN ClientOutcomes ELSE {"ok"}

\* One Reconcile call whose store call ends with `out` and whose update of
\* the target succeeds or not.
ReconcileWith(out, updateOk) ==
    \E e0 \in {ReconcileEffect(out, updateOk)} :
        LET outcome == IF e0.res.writeCalls + e0.res.deleteCalls = 0 THEN "none"
                       ELSE IF out = "ok" THEN "ok" ELSE "failed"
        IN  /\ e0.obj.rv <= (IF target.del THEN MaxRV ELSE MaxRV - 1)
            /\ target' = e0.obj
            /\ store' = e0.store
            /\ res' = [e0.res EXCEPT !.outcome = outcome,
                                     !.resumed = (res.branch = "crashed")]
            /\ written' = IF e0.res.branch \in {"synced", "synced_snapshot_failed"}
                          THEN written \cup {PhysicalPath(target)}
                          ELSE written
            /\ UNCHANGED <<other, clusterName, edits, tampered, probe, writer>>

Reconcile ==
    \E out \in StoreOutcomes, updateOk \in BOOLEAN :
        ReconcileWith(out, updateOk)

\* The engine dies in a Reconcile call between its store call, which has
\* succeeded, and the update of the target that follows it: the store is
\* changed, the target is not, and nothing is returned.  A crash counts
\* among the events from outside that `edits` bounds.
Crash ==
    \E e0 \in {ReconcileEffect("ok", FALSE)} :
        /\ edits < MaxEdits
        /\ e0.res.writeCalls + e0.res.deleteCalls > 0
        /\ ReconcileEffect("ok", TRUE).obj # target
        /\ store' = e0.store
        /\ res' = [Result(target.kind, "crashed", FALSE, 0, e0.res.writeCalls,
                          e0.res.deleteCalls, EmptyMap)
                      EXCEPT !.outcome = "ok"]
        /\ edits' = edits + 1
        /\ written' = IF e0.res.writeCalls > 0
                      THEN written \cup {PhysicalPath(target)}
                      ELSE written
        /\ UNCHANGED <<target, other, clusterName, tampered, probe, writer>>

\* A Reconcile call in which the store and the API server both succeed.
ReconcileOk == ReconcileWith("ok", TRUE)

\* A user's edit of the target: the object changes and, for a Secret, so
\* does its resourceVersion.
Edited(obj) ==
    IF obj.kind = "secret" THEN [obj EXCEPT !.rv = @ + 1] ELSE obj

UserEdit(obj) ==
    /\ edits < MaxEdits
    /\ target.exists
    /\ obj # target
    /\ Edited(obj).rv <= MaxRV - 1
    /\ target' = Edited(obj)
    /\ edits' = edits + 1
    /\ res' = NoResult
    /\ UNCHANGED <<other, store, clusterName, written, tampered, probe, writer>>

SetPath ==
    \E p \in PathChoices \cup {EmptyPath} :
        UserEdit([target EXCEPT !.ann = MapPut(@, VaultPathAnnotation, p)])

SetSecrets ==
    \E c \in CfgChoices :
        UserEdit([target EXCEPT !.ann = MapPut(@, VaultSecretsAnnotation, c)])

SetPreserve ==
    UserEdit([target EXCEPT
                 !.ann = MapPut(@, VaultPreserveOnDeleteAnnotation, "true")])

SetRotationCheck ==
    \E v \in RotationChoices :
        UserEdit([target EXCEPT
                     !.ann = MapPut(@, VaultRotationCheckAnnotation, v)])

SetReconcile ==
    \E v \in ReconcileChoices :
        UserEdit([target EXCEPT !.ann = MapPut(@, VaultReconcileAnnotation, v)])

\* The snapshot annotation is overwritten from outside with "", "null",
\* "{}" or text that is not JSON.
SetVersions ==
    \E form \in {"empty", "null", "object", "invalid"} :
        /\ target.kind = "secret"
        /\ UserEdit([target EXCEPT
                        !.ann = MapPut(@, VaultSecretVersionsAnnotation,
                                       VersionsText(form, <<>>))])

RemoveAnnotation ==
    \E k \in DOMAIN target.ann :
        UserEdit([target EXCEPT !.ann = MapDel(@, k)])

EditTargetData ==
    \E d \in DataChoices :
        /\ target.kind = "secret"
        /\ UserEdit([target EXCEPT !.data = d])

\* The user deletes the target: it is marked for deletion while it holds
\* the finalizer, and removed at once otherwise.
DeleteTarget ==
    /\ ~target.del
    /\ UserEdit(IF target.fin \/ target.held THEN [target EXCEPT !.del = TRUE]
                ELSE Gone(target))

\* The other controller removes its finalizer from the target.
ReleaseOther ==
    /\ target.exists /\ target.held
    /\ target' = IF target.del /\ ~target.fin THEN Gone(target)
                 ELSE [target EXCEPT !.held = FALSE]
    /\ res' = NoResult
    /\ UNCHANGED <<other, store, clusterName, edits, written, tampered, probe, writer>>

EditOtherData ==
    \E d \in DataChoices :
        /\ edits < MaxEdits
        /\ other.exists
        /\ d # other.data
        /\ other.rv < MaxRV
        /\ other' = [other EXCEPT !.data = d, !.rv = @ + 1]
        /\ edits' = edits + 1
        /\ res' = NoResult
        /\ UNCHANGED <<target, store, clusterName, written, tampered, probe, writer>>

\* The further Secret is deleted, or created again (with a new version).
ToggleOther ==
    /\ edits < MaxEdits
    /\ other.rv < MaxRV
    /\ other' = [other EXCEPT !.exists = ~@, !.rv = @ + 1]
    /\ edits' = edits + 1
    /\ res' = NoResult
    /\ UNCHANGED <<target, store, clusterName, written, tampered, probe, writer>>

\* An outside party deletes the content at a store path.
StoreDeletedOutside ==
    \E p \in DOMAIN store :
        /\ edits < MaxEdits
        /\ store' = MapDel(store, p)
        /\ tampered' = TRUE
        /\ edits' = edits + 1
        /\ res' = NoResult
        /\ UNCHANGED <<target, other, clusterName, written, probe, writer>>

Next ==
    \/ Reconcile
    \/ Crash
    \/ SetPath
    \/ SetSecrets
    \/ SetPreserve
    \/ SetRotationCheck
    \/ SetReconcile
    \/ SetVersions
    \/ RemoveAnnotation
    \/ EditTargetData
    \/ DeleteTarget
    \/ ReleaseOther
    \/ EditOtherData
    \/ ToggleOther
    \/ StoreDeletedOutside

Spec == Init /\ [][Next]_vars

\* Such a call for a target that is marked for deletion and holds the
\* finalizer.
DeletionReconcileOk ==
    /\ target.exists /\ target.del /\ target.fin
    /\ ReconcileOk

\* The work queue retries a failed Reconcile with backoff and calls it again
\* for every change of the target; store and API server failures are
\* transient.  A deletion Reconcile in which both succeed is therefore
\* weakly fair.
FairSpec == Spec /\ WF_vars(DeletionReconcileOk)

(***************************************************************************)
(* DetectSecretChanges applied on its own to every pair of version maps    *)
(* over the two names and the tokens 1..MaxToken.                          *)
(***************************************************************************)
VersionMaps ==
    UNION {[d -> 1..MaxToken] : d \in SUBSET {OtherName, TargetName}}

DetectInit ==
    /\ probe \in {Probe(l, c) : l \in VersionMaps, c \in VersionMaps}
    /\ target = NewTarget("secret", NoTemplate)
    /\ other = [exists |-> TRUE, rv |-> 1, data |-> ("k1" :> "u")]
    /\ store = EmptyMap
    /\ clusterName = <<>>
    /\ res = NoResult
    /\ edits = 0
    /\ written = {}
    /\ tampered = FALSE
    /\ writer = NoWriter

ApplyDetectSecretChanges ==
    /\ ~probe.done
    /\ probe' = [probe EXCEPT
                    !.done = TRUE,
                    !.out = DetectSecretChanges(probe.last, probe.current)]
    /\ UNCHANGED <<target, other, store, clusterName, res, edits, written,
                   tampered, writer>>

DetectNext == ApplyDetectSecretChanges

DetectSpec == DetectInit /\ [][DetectNext]_vars

(***************************************************************************)
(* Functions of one argument applied on their own: the probe holds the     *)
(* function's name, its argument, and its result once it is applied.       *)
(***************************************************************************)
MaxContainers == 2
MaxInitContainers == 1

Apply(fn, arg, out) == [fn |-> fn, arg |-> arg, done |-> FALSE, out |-> out]

\* Pod templates: up to MaxContainers containers and MaxInitContainers init
\* containers, whose env and envFrom entries name secrets, config maps,
\* both or nothing, some of them twice; and volumes likewise.
PodTemplates ==
    LET sec(n) == Item("secret", n)
        cm(n) == Item("configMap", n)
        envs == {<<>>, <<sec(OtherName)>>,
                 <<cm(TargetName), sec(OtherName), sec(OtherName)>>}
        envFroms == {<<cm(OtherName)>>, <<sec(TargetName)>>}
        volumes == {<<>>, <<sec(TargetName), sec(TargetName)>>,
                    <<cm(OtherName), sec(OtherName)>>}
        containers == {Container(e, f) : e \in envs, f \in envFroms}
        Lists(n) == UNION {[1..k -> containers] : k \in 0..n}
    IN  {Template(c, i, v) : c \in Lists(MaxContainers),
                             i \in Lists(MaxInitContainers),
                             v \in volumes}

\* The engine's variables while a function is applied on its own.
EngineIdle ==
    /\ target = NewTarget("secret", NoTemplate)
    /\ store = EmptyMap
    /\ res = NoResult
    /\ edits = 0
    /\ written = {}
    /\ tampered = FALSE

MaxPieces == 5
MaxTagLen == 3

\* Cluster tags: up to MaxTagLen characters, letters and slashes.
ClusterTags == UNION {[1..n -> {"a", "/"}] : n \in 0..MaxTagLen}

\* Two targets of two engines: the logical path of the one this engine
\* serves, and the cluster tag and the logical path of the other.
ResolveInputs ==
    LET paths == {<<"x">>, <<"a", "/", "x">>, PathKV2, PathKV1}
    IN  {[logicalPath |-> p, otherTag |-> t, otherPath |-> q] :
            p \in paths, t \in ClusterTags, q \in paths}

\* Store paths: up to MaxPieces pieces, each a word of the versioned-KV
\* convention, a slash or a name.
ShapePaths ==
    LET pieces == {W_secret, W_data, Slash, <<"x">>}
        RECURSIVE Join(_)
        Join(ps) == IF ps = <<>> THEN <<>> ELSE Head(ps) \o Join(Tail(ps))
    IN  {Join(ps) : ps \in UNION {[1..n -> pieces] : n \in 0..MaxPieces}}

\* Annotation maps without and with a reconcile-interval annotation.
IntervalAnnotations ==
    LET texts == {<<>>, W_off, W_10s, <<"b", "o", "g", "u", "s">>,
                  W_30s, <<"5", "m">>, <<"2", "9", "s">>,
                  <<"3", "1", "s">>, <<"1", "h">>, <<"1", "m", "3", "0", "s">>,
                  <<"0">>, <<"0", "s">>, <<"-", "5", "m">>,
                  <<"+", "4", "5", "s">>, <<"1", "0">>, <<"s">>, <<"-">>,
                  <<"5", "x">>, <<"1", "m", "3", "0">>}
    IN  {EmptyMap} \cup {VaultReconcileAnnotation :> v : v \in texts}

PureInit ==
    /\ \/ probe \in {Apply("extractSecretNamesFromPodTemplate", t, {}) :
                         t \in PodTemplates}
       \/ probe \in {Apply("getReconcileInterval", a, 0) :
                         a \in IntervalAnnotations}
       \/ probe \in {Apply("prepareDataForKVVersion",
                            [path |-> p, data |-> d], <<>>) :
                         p \in ShapePaths,
                         d \in {Payload(EmptyMap, EmptyMap),
                                Payload("k1" :> "u", EmptyMap),
                                Payload("data" :> "u", EmptyMap)}}
       \/ probe \in {Apply("preparePathForKVDelete", p, <<>>) :
                         p \in ShapePaths}
       \/ probe \in {Apply("Resolve", a, <<>>) : a \in ResolveInputs}
       \/ probe \in {Apply("syncCustomSecrets", CfgArray(<<e1, e2>>), <<>>) :
                         e1, e2 \in {Entry(n, ks, p) :
                                        n \in {OtherName, TargetName},
                                        ks \in {<<"k1">>, <<"k1", "k1">>},
                                        p \in {"", "app_"}}}
       \/ probe \in {Apply("GetChangedSecrets",
                            [last |-> l, current |-> c,
                             order |-> [current |-> oc, last |-> ol]], <<>>) :
                         l \in VersionMaps, c \in VersionMaps,
                         oc \in {NameOrder, <<TargetName, OtherName>>},
                         ol \in {NameOrder, <<TargetName, OtherName>>}}
       \/ probe \in {Apply("WriteSecret", [data |-> d, outcome |-> o], <<>>) :
                         d \in {Payload(EmptyMap, EmptyMap),
                                Payload("k1" :> "u", EmptyMap),
                                Payload("k1" :> "u" @@ "k2" :> "huge", EmptyMap),
                                Payload(EmptyMap, OtherName :> ("k1" :> "huge"))},
                         o \in DOMAIN StoreErrors}
    /\ clusterName \in IF probe.fn = "Resolve" THEN ClusterTags ELSE {<<>>}
    /\ other \in {[exists |-> TRUE, rv |-> 1, data |-> d] :
                      d \in IF probe.fn = "syncCustomSecrets" THEN DataChoices
                            ELSE {"k1" :> "u"}}
    /\ EngineIdle
    /\ writer = NoWriter

\* The result of applying the function the probe names.
Applied(fn, arg) ==
    CASE fn = "extractSecretNamesFromPodTemplate"
           -> extractSecretNamesFromPodTemplate(arg)
      [] fn = "getReconcileInterval"
           -> getReconcileInterval([ann |-> arg])
      [] fn = "prepareDataForKVVersion"
           -> prepareDataForKVVersion(arg.path, arg.data)
      [] fn = "preparePathForKVDelete"
           -> preparePathForKVDelete(arg)
      [] fn = "WriteSecret"
           -> WriteSecret(EmptyMap, PathKV2, arg.data, arg.outcome)
      [] fn = "GetChangedSecrets"
           -> GetChangedSecrets(arg.last, arg.current, arg.order)
      [] fn = "syncCustomSecrets"
           -> syncCustomSecrets(arg)
      [] fn = "Resolve"
           -> LET physical == Resolve(arg.logicalPath, clusterName)
                  data == Payload(EmptyMap, EmptyMap)
                  full == [x \in {physical, preparePathForKVDelete(physical)}
                              |-> prepareDataForKVVersion(x, data)]
              IN  [physical |-> physical,
                   other |-> Resolve(arg.otherPath, arg.otherTag),
                   writeAt |-> DOMAIN WriteSecretToVault(
                                   EmptyMap, arg.logicalPath, data, "ok").store,
                   deleteAt |-> DOMAIN full \ DOMAIN DeleteSecretFromVault(
                                   full, arg.logicalPath, "ok").store]

ApplyFunction ==
    /\ ~probe.done
    /\ probe' = [probe EXCEPT !.done = TRUE,
                              !.out = Applied(probe.fn, probe.arg)]
    /\ UNCHANGED <<target, other, store, clusterName, res, edits, written,
                   tampered, writer>>

PureNext == ApplyFunction

PureSpec == PureInit /\ [][PureNext]_vars

(***************************************************************************)
(* The vault client's calls, step by step: two callers (two Reconcile      *)
(* workers) share one Client, its limiter and its batch mutex.             *)
(***************************************************************************)
MaxBurst == 2
MaxOps == 6
batchSize == 5

Callers == {"r1", "r2"}

\* The engine's variables stay as they are.
EngineUnchanged ==
    UNCHANGED <<target, other, clusterName, res, edits, written, tampered,
                probe>>

\* A call of WriteSecret, DeleteSecret or BatchWriteSecrets with n
\* operations: where it stands (pc), the operation it is at (i), whether its
\* context is cancelled, whether the current Write or Delete has its token.
WriterInit ==
    LET Call(fn, n) ==
            [fn |-> fn, n |-> n,
             pc |-> IF fn = "BatchWriteSecrets" THEN "start" ELSE "wait",
             i |-> 1, cancelled |-> FALSE, token |-> FALSE, err |-> FALSE,
             taken |-> 0, pauses |-> 0]
        calls == {Call("WriteSecret", 1), Call("DeleteSecret", 1)}
                     \cup {Call("BatchWriteSecrets", n) : n \in {1, 2, MaxOps}}
    IN  /\ writer \in {[tokens |-> MaxBurst, mutex |-> "free", calls |-> cs,
                        log |-> <<>>] : cs \in [Callers -> calls]}
        /\ probe = NoProbe
        /\ clusterName = <<>>
        /\ other = [exists |-> TRUE, rv |-> 1, data |-> ("k1" :> "u")]
        /\ EngineIdle

\* WriteSecret or DeleteSecret for the operation the call is at; a batch
\* alternates writes and deletes.
ClientCall(c, outcome) ==
    LET call == writer.calls[c]
        type == IF call.fn = "WriteSecret" THEN "write"
                ELSE IF call.fn = "DeleteSecret" THEN "delete"
                ELSE IF call.i % 2 = 1 THEN "write" ELSE "delete"
        path == IF c = "r1" THEN PathKV2 ELSE PathKV1
    IN  IF type = "write"
        THEN WriteSecret(store, path, Payload("k1" :> c, EmptyMap), outcome)
        ELSE DeleteSecret(store, path, outcome)

\* batchMutex.Lock() finds the mutex free, with no lock at all.
MutexFree_NoLock(w) == TRUE

\* batchMutex.Lock() finds the mutex free.
MutexFree(w) == w.mutex = "free"

\* The call returns and a batch keeps the mutex locked.
Return_StaysLocked(w, c, err) ==
    [w EXCEPT !.calls[c].pc = "done", !.calls[c].err = err,
              !.calls[c].token = FALSE, !.calls[c].taken = 0]

\* The call returns; a batch unlocks the mutex (defer).
Return(w, c, err) ==
    [w EXCEPT !.calls[c].pc = "done", !.calls[c].err = err,
              !.calls[c].token = FALSE, !.calls[c].taken = 0,
              !.mutex = IF w.calls[c].fn = "BatchWriteSecrets" THEN "free"
                        ELSE @]

\* The call goes on with operation i at pc.  taken: the tokens taken so far
\* for the operation the call is at.
Goto(w, c, pc, i) ==
    [w EXCEPT !.calls[c].pc = pc, !.calls[c].i = i, !.calls[c].token = FALSE,
              !.calls[c].taken = IF i = w.calls[c].i THEN @ ELSE 0]

\* BatchWriteSecrets: c.batchMutex.Lock()
Lock(c) ==
    /\ writer.calls[c].pc = "start"
    /\ MutexFree(writer)
    /\ writer' = [Goto(writer, c, "batchWait", 1) EXCEPT !.mutex = c]
    /\ UNCHANGED store
    /\ EngineUnchanged

\* BatchWriteSecrets: rateLimiter.Wait before each operation.
BatchWait(c) ==
    /\ writer.calls[c].pc = "batchWait"
    /\ IF writer.calls[c].cancelled
       THEN writer' = Return(writer, c, TRUE)
       ELSE /\ writer.tokens > 0
            /\ writer' = [Goto(writer, c, "wait", writer.calls[c].i)
                             EXCEPT !.tokens = @ - 1,
                                    !.calls[c].taken = @ + 1]
    /\ UNCHANGED store
    /\ EngineUnchanged

\* WriteSecret and DeleteSecret: rateLimiter.Wait.  It returns an error when
\* the context is cancelled and takes a token as soon as there is one.
Wait(c) ==
    /\ writer.calls[c].pc = "wait"
    /\ IF writer.calls[c].cancelled
       THEN LET r == ClientCall(c, "rate_limited")
            IN  /\ store' = r.store
                /\ writer' = Return(writer, c, r.err)
       ELSE /\ writer.tokens > 0
            /\ writer' = [writer EXCEPT !.tokens = @ - 1,
                                        !.calls[c].pc = "store",
                                        !.calls[c].token = TRUE,
                                        !.calls[c].taken = @ + 1]
            /\ UNCHANGED store
    /\ EngineUnchanged

\* BatchWriteSecrets with the whole list as one chunk.
ChunkEnds_WholeList(call) == call.i = call.n

\* BatchWriteSecrets: operation i is the last one of operations[i:end].
ChunkEnds(call) == call.i % batchSize = 0 \/ call.i = call.n

\* WriteSecret and DeleteSecret after Wait: the token check and the request
\* to the store, which fails when the context is cancelled; then the rest
\* of the batch loop.
StoreOp(c) ==
    LET call == writer.calls[c]
    IN  /\ call.pc = "store"
        /\ \E outcome \in ClientOutcomes \ {"rate_limited"} :
              /\ call.cancelled => outcome # "ok"
              /\ LET r == ClientCall(c, outcome)
                     sent == [writer EXCEPT !.log =
                                 Append(@, [caller |-> c, i |-> call.i,
                                            outcome |-> outcome,
                                            tokens |-> call.taken,
                                            chunk |-> call.pauses + 1])]
                 IN  /\ store' = r.store
                     /\ writer' =
                           IF r.err THEN Return(sent, c, TRUE)
                           ELSE IF call.fn # "BatchWriteSecrets"
                           THEN Return(sent, c, FALSE)
                           ELSE IF ChunkEnds(call)
                           THEN Goto(sent, c, "pause", call.i)
                           ELSE Goto(sent, c, "batchWait", call.i + 1)
        /\ EngineUnchanged

\* BatchWriteSecrets: the select after a chunk.  With the context cancelled
\* and the timer fired, either case may be taken.
Pause(c) ==
    LET call == writer.calls[c]
        paused == [writer EXCEPT !.calls[c].pauses = @ + 1]
    IN  /\ call.pc = "pause"
        /\ \/ /\ call.cancelled
              /\ writer' = Return(writer, c, TRUE)
           \/ writer' = IF call.i = call.n THEN Return(paused, c, FALSE)
                        ELSE Goto(paused, c, "batchWait", call.i + 1)
        /\ UNCHANGED store
        /\ EngineUnchanged

\* The caller's context is cancelled.
Cancel(c) ==
    /\ writer.calls[c].pc # "done"
    /\ ~writer.calls[c].cancelled
    /\ writer' = [writer EXCEPT !.calls[c].cancelled = TRUE]
    /\ UNCHANGED store
    /\ EngineUnchanged

\* Time passes: the limiter has one more token, up to its burst.
Refill ==
    /\ writer.tokens < MaxBurst
    /\ writer' = [writer EXCEPT !.tokens = @ + 1]
    /\ UNCHANGED store
    /\ EngineUnchanged

WriterNext ==
    \/ \E c \in Callers : Lock(c)
    \/ \E c \in Callers : BatchWait(c)
    \/ \E c \in Callers : Wait(c)
    \/ \E c \in Callers : StoreOp(c)
    \/ \E c \in Callers : Pause(c)
    \/ \E c \in Callers : Cancel(c)
    \/ Refill

WriterSpec == WriterInit /\ [][WriterNext]_vars

\* Every goroutine that can take a step takes one, and time passes.  The
\* limiter hands out its tokens in the order of the reservations, so a call
\* that waits for a token gets one although others take tokens meanwhile.
FairWriterSpec ==
    /\ WriterSpec
    /\ WF_vars(Refill)
    /\ \A c \in Callers :
          /\ WF_vars(Lock(c))
          /\ SF_vars(BatchWait(c))
          /\ SF_vars(Wait(c))
          /\ WF_vars(StoreOp(c))
          /\ WF_vars(Pause(c))

(***************************************************************************)
(* Vocabulary of the properties.                                           *)
(***************************************************************************)
\* The target takes part in sync: its logical-path annotation is non-empty.
SyncEnabled(obj) ==
    /\ Has(obj.ann, VaultPathAnnotation)
    /\ obj.ann[VaultPathAnnotation] # EmptyPath

\* What Plan yields for the target as it is now.
Plan(obj) ==
    IF obj.kind = "secret" THEN SecretReconciler_plan(obj)
    ELSE DeploymentReconciler_plan(obj)

\* This step is a Reconcile call that returns.
ReconcileStep == res' # NoResult /\ res'.branch # "crashed"

\* The Reconcile call of this step finds a sync-enabled target that holds
\* the finalizer and is not being deleted: it reaches the sync step.
ReachesSync ==
    /\ ReconcileStep
    /\ target.exists /\ SyncEnabled(target) /\ target.fin /\ ~target.del

\* The Reconcile call of this step finds a sync-enabled target that holds
\* the finalizer and is being deleted.
ReachesCleanup ==
    /\ ReconcileStep
    /\ target.exists /\ SyncEnabled(target) /\ target.fin /\ target.del

PreserveOnDelete(obj) ==
    Get(obj.ann, VaultPreserveOnDeleteAnnotation, "") = "true"

SnapshotText(obj) ==
    Get(obj.ann, VaultSecretVersionsAnnotation, VersionsText("absent", <<>>))

SyncBranches == {"skipped", "synced", "synced_snapshot_failed"}

(***************************************************************************)
(* C1.  After a Reconcile of a sync-enabled target that holds the          *)
(* finalizer and is not being deleted has returned without error, and with *)
(* nobody but the engine changing the store, the store content at the      *)
(* target's physical path is the payload planned from the target's current *)
(* annotations and the current data of its referenced secrets.             *)
(***************************************************************************)
C1_StoreMatchesPlan ==
    (res.branch \in SyncBranches /\ ~res.err /\ ~tampered)
        => /\ ~Plan(target).err
           /\ PhysicalPath(target) \in DOMAIN store
           /\ store[PhysicalPath(target)]
                = prepareDataForKVVersion(PhysicalPath(target), Plan(target).data)

C3_DeleteErrorKeepsFinalizer ==
    [][(ReachesCleanup /\ ~PreserveOnDelete(target)) =>
         /\ res'.deleteCalls = 1
         /\ res'.outcome # "ok"
               => (res'.err /\ target' = target /\ store' = store)
         /\ ~target'.fin
               => /\ res'.outcome = "ok"
                  /\ preparePathForKVDelete(PhysicalPath(target))
                         \notin DOMAIN store']_vars

\* A deletion Reconcile whose store delete failed has returned.
C3_Witness ==
    /\ res.branch = "delete_failed" /\ res.err
    /\ target.exists /\ target.del /\ target.fin

(***************************************************************************)
(* C4.  When a sync-enabled target holding the finalizer is deleted        *)
(* without preserve-on-delete, then once the engine has removed the        *)
(* finalizer no store path the engine wrote for the target still holds     *)
(* content.                                                                *)
(***************************************************************************)
C4_NoWrittenPathLeft ==
    (res.branch = "deletion_cleanup" /\ ~res.err /\ ~target.fin)
        => \A p \in written : p \notin DOMAIN store

(***************************************************************************)
(* C5.  In a deletion Reconcile of a target that holds the finalizer and   *)
(* whose preserve-on-delete annotation is "true", no store delete and no   *)
(* other store mutation is issued, the store stays as it was, and the      *)
(* finalizer is removed (when the update of the target succeeds).          *)
(***************************************************************************)
C5_PreserveSkipsDelete ==
    [][(ReachesCleanup /\ PreserveOnDelete(target)) =>
         /\ res'.deleteCalls = 0 /\ res'.writeCalls = 0
         /\ store' = store
         /\ (~res'.err => ~target'.fin)]_vars

(***************************************************************************)
(* C6.  Under weak fairness of successful Reconcile calls, every target    *)
(* that is marked for deletion while it holds the finalizer eventually has *)
(* the finalizer removed.                                                  *)
(***************************************************************************)
C6_DeletionCompletes ==
    (target.exists /\ target.del /\ target.fin) ~> ~target.fin

\* A deletion Reconcile has removed the finalizer and the target is gone.
C6_Witness ==
    /\ res.branch \in {"deletion_cleanup", "deletion_preserved"}
    /\ ~res.err /\ target.del /\ ~target.exists

(***************************************************************************)
(* C7.  The version-snapshot annotation of a target changes only in a      *)
(* Reconcile whose store write succeeded, and the value persisted then is  *)
(* the version map the Plan of that Reconcile read; when Plan fails or the *)
(* store write fails the snapshot is left as it was.                       *)
(***************************************************************************)
C7_SnapshotOnlyAfterWrite ==
    [][ReconcileStep =>
         /\ (target'.exists /\ SnapshotText(target') # SnapshotText(target))
               => /\ res'.writeCalls = 1 /\ res'.outcome = "ok" /\ ~res'.err
                  /\ ~Plan(target).err
                  /\ ParseSecretVersionsAnnotation(SnapshotText(target'))
                        = Plan(target).versions
                  /\ PhysicalPath(target) \in DOMAIN store'
                  /\ store'[PhysicalPath(target)]
                        = prepareDataForKVVersion(PhysicalPath(target),
                                                  Plan(target).data)
         /\ (res'.branch = "plan_failed" \/ res'.outcome = "failed")
               => target' = target]_vars

\* A Reconcile has written the store and persisted the versions it read.
C7_Witness ==
    /\ res.branch = "synced" /\ res.outcome = "ok"
    /\ Has(target.ann, VaultSecretVersionsAnnotation)
    /\ res.planned # EmptyMap
    /\ getLastKnownSecretVersions(target) = res.planned

(***************************************************************************)
(* C8.  After a Reconcile that wrote the store and persisted the version   *)
(* snapshot, with no referenced secret changed by anyone but the engine, a *)
(* further Reconcile is skipped by the Change Detector: it issues no store *)
(* write and no update of the target.                                      *)
(***************************************************************************)
C8_SkippedAfterSync ==
    [][(/\ ReconcileStep
        /\ res.branch = "synced"
        /\ Has(target.ann, VaultSecretVersionsAnnotation)
        /\ ~isRotationCheckDisabled(target))
          => /\ res'.branch = "skipped"
             /\ res'.writeCalls = 0
             /\ target' = target
             /\ store' = store]_vars

(***************************************************************************)
(* C9.  When the content at a synced target's physical path has been       *)
(* deleted by an outside party while the referenced secrets are as the     *)
(* snapshot recorded them, the next Reconcile of the target that returns   *)
(* without error has written the content at that path again.               *)
(***************************************************************************)
C9_OutsideDeleteHealed ==
    [][(/\ ReachesSync
        /\ tampered
        /\ PhysicalPath(target) \in written
        /\ PhysicalPath(target) \notin DOMAIN store
        /\ ~Plan(target).err
        /\ target.kind = "secret"
              => getLastKnownSecretVersions(target) = Plan(target).versions
        /\ ~res'.err)
          => PhysicalPath(target) \in DOMAIN store']_vars

(***************************************************************************)
(* C10.  For every pair (last, current) of version maps, HasChanged is     *)
(* true exactly when last is empty, or some name is in both maps with      *)
(* different tokens, or some name is in exactly one of the two maps.       *)
(***************************************************************************)
C10_HasChangedIff ==
    probe.done =>
        (probe.out <=>
            \/ DOMAIN probe.last = {}
            \/ \E n \in DOMAIN probe.last \cap DOMAIN probe.current :
                  probe.last[n] # probe.current[n]
            \/ (DOMAIN probe.last \ DOMAIN probe.current) # {}
            \/ (DOMAIN probe.current \ DOMAIN probe.last) # {})

\* HasChanged has answered "no" for two equal maps naming both secrets.
C10_Witness ==
    /\ probe.done /\ ~probe.out
    /\ DOMAIN probe.last = {OtherName, TargetName}

(***************************************************************************)
(* C11.  When the rotation-check annotation of the target is exactly       *)
(* "disabled", every Reconcile that reaches the sync step with a Plan that *)
(* succeeds issues a store write, also when the snapshot names the current *)
(* versions; with any other value, or without the annotation, a write is   *)
(* issued exactly when the Change Detector reports a change.               *)
(***************************************************************************)
RotationCheckOff(obj) ==
    Get(obj.ann, VaultRotationCheckAnnotation, "") = "disabled"

C11_RotationCheckDisabledForcesWrite ==
    [][(ReachesSync /\ ~Plan(target).err) =>
         IF RotationCheckOff(target)
         THEN res'.writeCalls = 1
         ELSE (res'.writeCalls = 1) <=>
                 \/ DOMAIN getLastKnownSecretVersions(target) = {}
                 \/ DetectSecretChanges(getLastKnownSecretVersions(target),
                                        Plan(target).versions)]_vars

\* A Reconcile has written the store although the snapshot named the
\* current versions, the rotation check being disabled.
C11_Witness ==
    /\ res.branch = "synced" /\ res.unchanged
    /\ RotationCheckOff(target)

(***************************************************************************)
(* C12.  When Plan must fail (the explicit config is malformed, a          *)
(* referenced secret does not exist, or a requested key is missing from    *)
(* its secret), Reconcile returns an error, issues no store write at all,  *)
(* and leaves the target (snapshot and finalizer included) as it was.      *)
(***************************************************************************)
\* The explicit config of the target, CfgEmpty without one.
ExplicitConfig(obj) == Get(obj.ann, VaultSecretsAnnotation, CfgEmpty)

\* The secret names a pod template refers to.
Range(seq) == {seq[i] : i \in 1..Len(seq)}
Referenced(podTemplate) ==
    LET all == Range(podTemplate.containers)
                   \cup Range(podTemplate.initContainers)
        items == UNION {Range(c.env) \cup Range(c.envFrom) : c \in all}
                     \cup Range(podTemplate.volumes)
    IN  {it.name : it \in {x \in items : x.src = "secret"}}

\* The inputs of Plan are such that it must fail.
PlanInputBad(obj) ==
    LET cfg == ExplicitConfig(obj)
    IN  IF cfg # CfgEmpty
        THEN \/ cfg.form # "array"
             \/ \E i \in 1..Len(cfg.entries) :
                   LET e == cfg.entries[i]
                   IN  \/ ~GetSecret(e.name).found
                       \/ \E j \in 1..Len(e.keys) :
                             e.keys[j] \notin DOMAIN GetSecret(e.name).data
        ELSE /\ obj.kind = "deployment"
             /\ \E n \in Referenced(obj.template) : ~GetSecret(n).found

C12_PlanFailureWritesNothing ==
    [][(ReachesSync /\ PlanInputBad(target)) =>
         /\ res'.err
         /\ res'.writeCalls = 0 /\ res'.deleteCalls = 0
         /\ store' = store
         /\ target' = target]_vars

\* A Reconcile has failed in Plan on a key missing from its secret, after
\* an entry of the config that resolved.
C12_Witness ==
    /\ res.branch = "plan_failed" /\ res.err
    /\ ExplicitConfig(target) = CfgOtherBoth
    /\ other.exists /\ "k2" \notin DOMAIN other.data
    /\ target.fin

(***************************************************************************)
(* C13.  In explicit-config mode the payload written at the target's path  *)
(* has exactly the keys prefix \o k, for every entry and every key k the   *)
(* entry lists, each with the value of k in the secret the entry names; no *)
(* key of a referenced secret that is not listed appears.                  *)
(***************************************************************************)
Wrote == res.branch \in {"synced", "synced_snapshot_failed"}

C13_ExplicitPayloadExact ==
    (Wrote /\ ExplicitConfig(target) # CfgEmpty) =>
        LET entries == ExplicitConfig(target).entries
            content == store[PhysicalPath(target)].data
            listed == {<<i, j>> \in (1..Len(entries)) \X (1..Cardinality(Keys)) :
                          j <= Len(entries[i].keys)}
            VaultKey(ij) == entries[ij[1]].prefix \o entries[ij[1]].keys[ij[2]]
        IN  /\ content.nested = EmptyMap
            /\ DOMAIN content.flat = {VaultKey(ij) : ij \in listed}
            /\ \A ij \in listed :
                  content.flat[VaultKey(ij)]
                      = GetSecret(entries[ij[1]].name)
                            .data[entries[ij[1]].keys[ij[2]]]

\* A payload with one prefixed key has been written from a secret that
\* holds a further key the config does not list.
C13_Witness ==
    /\ Wrote /\ ExplicitConfig(target) = CfgOther
    /\ DOMAIN other.data = {"k1", "k2"}
    /\ DOMAIN store[PhysicalPath(target)].data.flat = {"app_k1"}

(***************************************************************************)
(* C14.  Auto-discovery returns exactly the union of the secret names in   *)
(* the env-var secret references and the bulk env imports of every         *)
(* container and every init container and the secret names of the secret   *)
(* volumes: a name referenced several times appears once, and no other     *)
(* name appears.                                                           *)
(***************************************************************************)
C14_DiscoveryIsUnion ==
    (probe.fn = "extractSecretNamesFromPodTemplate" /\ probe.done)
        => probe.out = Referenced(probe.arg)

\* Discovery has returned both names for a template with two containers,
\* an init container and a volume list that names one secret twice.
C14_Witness ==
    /\ probe.fn = "extractSecretNamesFromPodTemplate" /\ probe.done
    /\ probe.out = {OtherName, TargetName}
    /\ Len(probe.arg.containers) = MaxContainers
    /\ Len(probe.arg.initContainers) = MaxInitContainers
    /\ Len(probe.arg.volumes) > Cardinality(Range(probe.arg.volumes))

(***************************************************************************)
(* C15.  In auto-discovery mode a sync issues one store write per          *)
(* discovered secret, to the sub-path logicalPath/secretName, carrying     *)
(* that secret's entire key set as a flat payload; the discovered secrets  *)
(* are not merged into one payload written at the logical path itself.     *)
(***************************************************************************)
C15_AutoDiscoveryWritesPerSecret ==
    [][(/\ ReachesSync
        /\ target.kind = "deployment"
        /\ ExplicitConfig(target) = CfgEmpty
        /\ res'.branch = "synced")
       => LET logicalPath == target.ann[VaultPathAnnotation]
              secretNames == Referenced(target.template)
              SubPath(n) == logicalPath \o Slash \o <<n>>
          IN  /\ res'.writeCalls = Cardinality(secretNames)
              /\ \A n \in secretNames :
                    /\ SubPath(n) \in DOMAIN store'
                    /\ store'[SubPath(n)].data
                           = Payload(GetSecret(n).data, EmptyMap)
              /\ logicalPath \in DOMAIN store' => logicalPath \in DOMAIN store]_vars

(***************************************************************************)
(* C16.  Reconcile of a target whose logical-path annotation is absent or  *)
(* empty never issues a store mutation and never changes an annotation; if *)
(* the finalizer is present it removes it and persists (also when the      *)
(* target is being deleted), otherwise it changes nothing.                 *)
(***************************************************************************)
C16_DisabledOnlyDropsFinalizer ==
    [][(ReconcileStep /\ target.exists /\ ~SyncEnabled(target))
       => /\ store' = store
          /\ res'.writeCalls = 0 /\ res'.deleteCalls = 0
          /\ target'.exists => target'.ann = target.ann
          /\ IF target.fin
             THEN IF res'.err THEN target' = target ELSE ~target'.fin
             ELSE target' = target /\ ~res'.err]_vars

\* The finalizer of a target that is being deleted and whose logical-path
\* annotation is empty has been removed.
C16_Witness ==
    /\ res.branch = "disabled_remove_finalizer" /\ ~res.err
    /\ target.del /\ ~target.fin
    /\ written # {}

(***************************************************************************)
(* C17.  Reconcile of a sync-enabled target that is being deleted and has  *)
(* no finalizer is a no-op: it never adds the finalizer, never writes or   *)
(* deletes in the store and never updates the target; hence the engine     *)
(* never adds a finalizer to, or writes store content for, a target that   *)
(* already carries the deletion marker.                                    *)
(***************************************************************************)
C17_DeletedWithoutFinalizerNoop ==
    [][/\ (/\ ReconcileStep
           /\ target.exists /\ SyncEnabled(target)
           /\ target.del /\ ~target.fin)
          => /\ target' = target
             /\ store' = store
             /\ res'.writeCalls = 0 /\ res'.deleteCalls = 0
             /\ ~res'.err
       /\ (ReconcileStep /\ target.exists /\ target.del)
          => /\ target'.fin => target.fin
             /\ res'.writeCalls = 0]_vars

\* Reconcile has returned for a sync-enabled target that carries the
\* deletion marker and another controller's finalizer, but not the engine's.
C17_Witness ==
    /\ res.branch = "deletion_noop"
    /\ target.exists /\ SyncEnabled(target)
    /\ target.del /\ ~target.fin /\ target.held

(***************************************************************************)
(* C18.  The effective reconcile interval is 0 (disabled) when the         *)
(* annotation is absent, empty, "off" or not a parsable duration, and      *)
(* otherwise max(d, 30s) for the parsed duration d: "10s" gives exactly    *)
(* 30s, "30s" gives 30s, "5m" gives 5 minutes, and the result is never     *)
(* strictly between 0 and 30 seconds.                                      *)
(***************************************************************************)
C18_EffectiveInterval ==
    (probe.fn = "getReconcileInterval" /\ probe.done) =>
        LET absent == ~Has(probe.arg, VaultReconcileAnnotation)
            text == Get(probe.arg, VaultReconcileAnnotation, <<>>)
            parsed == ParseDuration(text)
            IntervalOf(t) == CASE t = W_10s -> 30
                               [] t = W_30s -> 30
                               [] t = <<"5", "m">> -> 300
                               [] OTHER -> -1
        IN  /\ probe.out
                = IF absent \/ text = <<>> \/ text = W_off \/ parsed.err THEN 0
                  ELSE IF parsed.d > MinReconcileInterval THEN parsed.d
                  ELSE MinReconcileInterval
            /\ IntervalOf(text) >= 0 => probe.out = IntervalOf(text)
            /\ ~(0 < probe.out /\ probe.out < MinReconcileInterval)

\* The function has been applied to "10s" and has returned the minimum.
C18_Witness ==
    /\ probe.fn = "getReconcileInterval" /\ probe.done
    /\ Get(probe.arg, VaultReconcileAnnotation, <<>>) = W_10s
    /\ probe.out = MinReconcileInterval

(***************************************************************************)
(* C19.  A Reconcile of a sync-enabled, finalizer-holding target that is   *)
(* not being deleted and completes the sync step without error returns a   *)
(* requeue delay equal to the effective reconcile interval, the same       *)
(* whether the store write was performed or skipped; an unparsable         *)
(* interval annotation yields a zero delay without failing the sync, and a *)
(* Reconcile that returns an error never carries the periodic delay.       *)
(***************************************************************************)
C19_RequeueDelayIsInterval ==
    [][/\ (ReachesSync /\ ~res'.err)
          => res'.requeueAfter = getReconcileInterval(target)
       /\ (ReachesSync /\ Has(target.ann, VaultReconcileAnnotation)
                       /\ ParseDuration(target.ann[VaultReconcileAnnotation]).err)
          => (res'.err <=> (Plan(target).err \/ res'.outcome = "failed"))
       /\ (ReconcileStep /\ res'.err) => res'.requeueAfter = 0]_vars

(***************************************************************************)
(* C20.  One Reconcile of a newly created sync-enabled Deployment (no      *)
(* finalizer yet) whose referenced secrets exist leaves the secrets' data  *)
(* written in the store at the target's physical path and, when the        *)
(* reconcile-interval annotation is "30s", returns a requeue delay of 30   *)
(* seconds.                                                                *)
(***************************************************************************)
C20_FirstReconcileWrites ==
    [][(/\ ReconcileStep
        /\ target.kind = "deployment"
        /\ target.exists /\ SyncEnabled(target)
        /\ ~target.fin /\ ~target.del
        /\ ~Plan(target).err
        /\ ~res'.err)
       => /\ PhysicalPath(target) \in DOMAIN store'
          /\ store'[PhysicalPath(target)].data = Plan(target).data
          /\ Get(target.ann, VaultReconcileAnnotation, <<>>) = W_30s
                => res'.requeueAfter = MinReconcileInterval]_vars

(***************************************************************************)
(* C21.  For every path p and payload d given to the Writer: Write sends   *)
(* {data: d} (wrapped exactly once) when p has the form                    *)
(* secret/data/<non-empty rest> and sends d unmodified otherwise, and      *)
(* Delete of a path of that form targets p itself.                         *)
(***************************************************************************)
\* p is secret/data/<rest> with a non-empty rest.
VersionedForm(p) ==
    \E k \in 1..Len(p) :
        /\ k < Len(p)
        /\ SubSeq(p, 1, k) = W_secret \o Slash \o W_data \o Slash

C22_UnversionedDeleteUntouched ==
    (probe.fn = "preparePathForKVDelete" /\ probe.done
                                         /\ ~VersionedForm(probe.arg))
        => probe.out = probe.arg

C24_TokenBeforeMutation ==
    [][\A c \in Callers :
          LET call == writer.calls[c]
              after == writer'.calls[c]
          IN  after # call =>
                /\ (store' # store \/ writer'.log # writer.log) => call.token
                /\ (~call.token /\ after.token)
                      => (writer.tokens > 0 /\ writer'.tokens = writer.tokens - 1)
                /\ (call.pc \in {"wait", "batchWait"} /\ call.cancelled)
                      => /\ after.pc = "done" /\ after.err
                         /\ store' = store
                         /\ writer'.log = writer.log]_vars

\* A WriteSecret call whose context was cancelled while it waited for a token
\* has returned an error without a request to the store.
C24_Witness ==
    /\ writer.calls # <<>>
    /\ \E c \in Callers :
          /\ writer.calls[c].fn = "WriteSecret"
          /\ writer.calls[c].pc = "done" /\ writer.calls[c].err
          /\ writer.calls[c].cancelled
          /\ \A k \in 1..Len(writer.log) : writer.log[k].caller # c
    /\ store # EmptyMap

(***************************************************************************)
(* C25.  For any two concurrent BatchWrite calls on the same Writer, the   *)
(* store operations of one call are all issued before or all after those   *)
(* of the other: no operation of one call is ever issued between two       *)
(* operations of the other.                                                *)
(***************************************************************************)
C25_BatchesNeverInterleave ==
    (\A c \in Callers : writer.calls # <<>>
                        /\ writer.calls[c].fn = "BatchWriteSecrets")
        => \A i, j, k \in 1..Len(writer.log) :
              (i < j /\ j < k /\ writer.log[i].caller = writer.log[k].caller)
                  => writer.log[j].caller = writer.log[i].caller

\* Two batches of more than one chunk have both sent all their operations.
C25_Witness ==
    /\ writer.calls # <<>>
    /\ \A c \in Callers :
          /\ writer.calls[c].fn = "BatchWriteSecrets"
          /\ writer.calls[c].n > batchSize
          /\ writer.calls[c].pc = "done" /\ ~writer.calls[c].err
    /\ Len(writer.log) > batchSize + batchSize

(***************************************************************************)
(* C26.  In BatchWrite, the failure of an individual operation does not    *)
(* affect the rest of the batch: the operations that follow the failing    *)
(* one in the list are still executed.                                     *)
(***************************************************************************)
C26_BatchGoesOnAfterFailure ==
    \A c \in Callers :
        (/\ writer.calls # <<>>
         /\ writer.calls[c].fn = "BatchWriteSecrets"
         /\ writer.calls[c].pc = "done"
         /\ ~writer.calls[c].cancelled)
            => \A i \in 1..writer.calls[c].n :
                  \E k \in 1..Len(writer.log) :
                      writer.log[k].caller = c /\ writer.log[k].i = i

(***************************************************************************)
(* C27.  Every failed store write, through the normal path or through the  *)
(* large-payload path, increments exactly one of the counters              *)
(* permission-denied, invalid-path, connection-failed, unknown (chosen in  *)
(* that precedence order from substrings of the error text) and still      *)
(* returns an error; the classification never changes whether an error is  *)
(* returned.                                                               *)
(***************************************************************************)
C27_FailedWriteIsCounted ==
    (probe.fn = "WriteSecret" /\ probe.done) =>
        LET counter == "store_error" :> "unknown"
                       @@ "denied" :> "permission_denied"
                       @@ "missing" :> "invalid_path"
                       @@ "unreachable" :> "connection_failed"
                       @@ "missing_denied" :> "permission_denied"
                       @@ "unreachable_missing" :> "invalid_path"
        IN  /\ probe.out.err
            /\ probe.out.store = EmptyMap
            /\ probe.out.metric = counter[probe.arg.outcome]

(***************************************************************************)
(* C28.  A version-snapshot annotation that is absent, empty, "null", "{}" *)
(* or not valid JSON is read as the empty map and no error is raised for   *)
(* it; the next Reconcile that reaches the sync step with a plan treats    *)
(* the target as never synced and issues the store write, whatever the     *)
(* versions are, and when the write succeeds the store holds the payload   *)
(* and the snapshot names the planned versions.  Deleting the annotation   *)
(* so forces one fresh sync.                                               *)
(***************************************************************************)
C28_EmptySnapshotForcesSync ==
    [][(/\ ReachesSync
        /\ target.kind = "secret"
        /\ ~Plan(target).err
        /\ \/ ~Has(target.ann, VaultSecretVersionsAnnotation)
           \/ SnapshotText(target) \in
                 {VersionsText(form, <<>>) :
                     form \in {"empty", "null", "object", "invalid"}})
       => /\ getLastKnownSecretVersions(target) = EmptyMap
          /\ res'.writeCalls = 1
          /\ res'.branch \in {"synced", "synced_snapshot_failed", "write_failed"}
          /\ res'.err <=> res'.outcome = "failed"
          /\ res'.outcome = "ok" =>
                /\ \E p \in DOMAIN store' :
                      store'[p] = prepareDataForKVVersion(p, Plan(target).data)
                /\ res'.branch = "synced" =>
                      SnapshotText(target') = MarshalVersions(Plan(target).versions)]_vars

\* A Reconcile has read "null" for the snapshot of a target whose plan names
\* the further Secret only, in the version the store was last written for,
\* and has written to the store again.
C28_Witness ==
    /\ res.branch = "synced" /\ res.writeCalls = 1
    /\ res.read = VersionsText("null", <<>>)
    /\ res.planned = (OtherName :> 1)
    /\ SnapshotText(target) = MarshalVersions(res.planned)
    /\ edits = MaxEdits

(***************************************************************************)
(* C30.  When the store write of a Reconcile succeeds and persisting the   *)
(* version snapshot fails, Reconcile returns without error and with the    *)
(* usual requeue delay, the store holds the newly written payload, the     *)
(* target (and so its snapshot) is as it was, and the next Reconcile finds *)
(* a change and writes the same payload again.                             *)
(***************************************************************************)
C30_SnapshotFailureNotFatal ==
    [][(ReachesSync /\ target.kind = "secret"
        /\ res'.writeCalls = 1 /\ res'.outcome = "ok"
        /\ \/ SnapshotText(target') # MarshalVersions(Plan(target).versions)
           \/ res'.branch = "synced_snapshot_failed")
       => /\ res'.branch = "synced_snapshot_failed"
          /\ ~res'.err
          /\ res'.requeueAfter = getReconcileInterval(target)
          /\ target' = target
          /\ \E p \in DOMAIN store' :
                store'[p] = prepareDataForKVVersion(p, Plan(target).data)
          /\ LET next == SecretReconciler_Reconcile(target', store', "ok", TRUE)
             IN  /\ next.res.writeCalls = 1
                 /\ next.res.branch = "synced"
                 /\ next.store = store'
                 /\ SnapshotText(next.obj) = MarshalVersions(Plan(target).versions)]_vars

\* The snapshot update of a Reconcile failed after its store write, and the
\* snapshot still names an older version than the one written.
C30_Witness ==
    /\ res.branch = "synced_snapshot_failed" /\ res.outcome = "ok"
    /\ Has(target.ann, VaultSecretVersionsAnnotation)
    /\ getLastKnownSecretVersions(target) # EmptyMap
    /\ getLastKnownSecretVersions(target) # res.planned
    /\ store # EmptyMap

(***************************************************************************)
(* C29.  When the engine crashes in a Reconcile between two side effects   *)
(* (after the store write and before the snapshot update, or after the     *)
(* store delete and before the finalizer removal), Reconcile called again  *)
(* returns without error once the store and the API server answer, and     *)
(* leaves the target and the store as the uninterrupted Reconcile would    *)
(* have left them; a Reconcile called again that returns an error leaves   *)
(* the crashed state as it is.                                             *)
(***************************************************************************)
C29_CrashThenRetryConverges ==
    [][res'.branch = "crashed" =>
         LET Again(out, updateOk) ==
                 IF target'.kind = "secret"
                 THEN SecretReconciler_Reconcile(target', store', out, updateOk)
                 ELSE DeploymentReconciler_Reconcile(target', store', out, updateOk)
         IN  /\ store' = ReconcileEffect("ok", TRUE).store
             /\ \A updateOk \in BOOLEAN :
                   \E uninterrupted \in {ReconcileEffect("ok", updateOk)},
                      again \in {Again("ok", updateOk)} :
                       /\ updateOk => ~again.res.err
                       /\ again.res.err = uninterrupted.res.err
                       /\ again.obj = uninterrupted.obj
                       /\ again.store = uninterrupted.store
             /\ \A out \in ClientOutcomes, updateOk \in BOOLEAN :
                   \E again \in {Again(out, updateOk)} :
                       again.res.err =>
                           (again.obj = target' /\ again.store = store')]_vars

\* A Reconcile called again after a crash has returned without error: after
\* a crash behind the store write it has persisted the snapshot.
C29_Witness ==
    /\ res.resumed /\ ~res.err
    /\ res.branch = "synced"
    /\ SnapshotText(target) = MarshalVersions(res.planned)
    /\ store # EmptyMap

(***************************************************************************)
(* C31.  Diff(last, current) holds, each once, exactly the names of        *)
(* current that are absent from last or whose token differs from last's,   *)
(* and the names of last that are absent from current with " (removed)"    *)
(* appended; it is empty iff the two maps are equal; so for every          *)
(* non-empty last, HasChanged(last, current) holds iff Diff(last, current) *)
(* is non-empty.                                                           *)
(***************************************************************************)
C31_DiffExact ==
    (probe.fn = "GetChangedSecrets" /\ probe.done) =>
        LET last == probe.arg.last
            current == probe.arg.current
            tags == [a |-> "a (removed)", t |-> "t (removed)"]
        IN  /\ Range(probe.out)
                 = {n \in DOMAIN current \ DOMAIN last : TRUE}
                   \cup {n \in DOMAIN current \cap DOMAIN last :
                            last[n] # current[n]}
                   \cup {tags[n] : n \in DOMAIN last \ DOMAIN current}
            /\ Len(probe.out) = Cardinality(Range(probe.out))
            /\ probe.out = <<>> <=> last = current
            /\ DOMAIN last # {} =>
                  (DetectSecretChanges(last, current) <=> probe.out # <<>>)

\* Diff was applied to maps of which the current one has a new token for one
\* name and lacks the other name, ranged over in the reverse order.
C31_Witness ==
    /\ probe.fn = "GetChangedSecrets" /\ probe.done
    /\ probe.arg.last = (OtherName :> 1 @@ TargetName :> 1)
    /\ probe.arg.current = (TargetName :> 2)
    /\ probe.arg.order.current = <<TargetName, OtherName>>
    /\ probe.out = <<TargetName, "a (removed)">>

(***************************************************************************)
(* C32.  When no operation fails and the context is not cancelled,         *)
(* BatchWrite issues every operation of the list exactly once and in list  *)
(* order, in ceil(n/5) chunks of which all but the last hold exactly 5     *)
(* operations, with a pause between consecutive chunks.                    *)
(***************************************************************************)
C32_BatchChunksInOrder ==
    \A c \in Callers :
        (/\ writer.calls # <<>>
         /\ writer.calls[c].fn = "BatchWriteSecrets"
         /\ writer.calls[c].pc = "done"
         /\ ~writer.calls[c].err
         /\ ~writer.calls[c].cancelled)
            => LET n == writer.calls[c].n
                   mine == SelectSeq(writer.log, LAMBDA e : e.caller = c)
               IN  /\ Len(mine) = n
                   /\ \A k \in 1..Len(mine) :
                         /\ mine[k].i = k
                         /\ mine[k].outcome = "ok"
                         /\ mine[k].chunk = ((k - 1) \div 5) + 1
                   /\ writer.calls[c].pauses = (n + 4) \div 5

\* A batch of more than five operations has returned without error and
\* without a cancellation, after two chunks.
C32_Witness ==
    /\ writer.calls # <<>>
    /\ \E c \in Callers :
          /\ writer.calls[c].fn = "BatchWriteSecrets"
          /\ writer.calls[c].n > 5
          /\ writer.calls[c].pc = "done"
          /\ ~writer.calls[c].err /\ ~writer.calls[c].cancelled
          /\ writer.calls[c].pauses = 2

(***************************************************************************)
(* C33.  Each write or delete operation executed through BatchWrite        *)
(* acquires exactly one rate-limit token, the same number as when it is    *)
(* issued through Write or Delete directly.                                *)
(***************************************************************************)
C33_OneTokenPerOperation ==
    \A k \in 1..Len(writer.log) : writer.log[k].tokens = 1

(***************************************************************************)
(* C34.  If every operation of the list has been committed to the store,   *)
(* BatchWrite returns no error: a cancellation of the caller's context     *)
(* that arrives after the last operation was committed does not turn the   *)
(* result into an error.                                                   *)
(***************************************************************************)
C34_CommittedBatchReturnsNoError ==
    \A c \in Callers :
        (/\ writer.calls # <<>>
         /\ writer.calls[c].fn = "BatchWriteSecrets"
         /\ writer.calls[c].pc = "done"
         /\ \A i \in 1..writer.calls[c].n :
               \E k \in 1..Len(writer.log) :
                   /\ writer.log[k].caller = c /\ writer.log[k].i = i
                   /\ writer.log[k].outcome = "ok")
            => ~writer.calls[c].err

(***************************************************************************)
(* C35.  BatchWrite releases the batch mutex on every exit path (success,  *)
(* operation failure, cancellation while waiting for a token, cancellation *)
(* during the pause) and never waits for that mutex while holding it: the  *)
(* mutex is held only by a batch that is past Lock and has not returned,   *)
(* and every call returns in the end, so that a BatchWrite call blocked on *)
(* the mutex proceeds once the holder has returned and no call is stuck    *)
(* for ever.                                                               *)
(***************************************************************************)
C35_MutexAlwaysReleased ==
    /\ [](\A c \in Callers :
             /\ writer.mutex = c
                   => /\ writer.calls[c].fn = "BatchWriteSecrets"
                      /\ writer.calls[c].pc \in {"batchWait", "wait", "store",
                                                 "pause"}
             /\ (writer.calls[c].pc = "start"
                 /\ \A d \in Callers \ {c} : writer.calls[d].pc = "done")
                   => writer.mutex = "free")
    /\ \A c \in Callers :
          (writer.calls[c].pc = "start") ~> (writer.calls[c].pc = "done")

\* A batch has returned with an error after a cancellation, having sent an
\* operation, and the other batch, which had to wait for the mutex, holds it.
C35_Witness ==
    /\ writer.calls # <<>>
    /\ \E c, d \in Callers :
          /\ c # d
          /\ writer.calls[c].fn = "BatchWriteSecrets"
          /\ writer.calls[c].pc = "done"
          /\ writer.calls[c].err /\ writer.calls[c].cancelled
          /\ \E k \in 1..Len(writer.log) : writer.log[k].caller = c
          /\ writer.mutex = d
          /\ writer.calls[d].pc = "store"

(***************************************************************************)
(* C36.  When two explicit-config entries produce the same payload key     *)
(* (equal prefix \o key), the merged flat payload holds exactly one value  *)
(* for that key, the one of the later entry in the list, and Plan reports  *)
(* no error.                                                               *)
(***************************************************************************)
C36_LaterEntryWins ==
    (probe.fn = "syncCustomSecrets" /\ probe.done) =>
        LET first == probe.arg.entries[1]
            second == probe.arg.entries[2]
            clash == {k \in Keys :
                         /\ \E i \in 1..Len(first.keys) : first.keys[i] = k
                         /\ \E j \in 1..Len(second.keys) : second.keys[j] = k
                         /\ first.prefix = second.prefix}
        IN  clash # {} =>
              /\ ~probe.out.err
              /\ probe.out.data.nested = EmptyMap
              /\ DOMAIN probe.out.data.flat = {second.prefix \o k : k \in clash}
              /\ \A k \in clash :
                    probe.out.data.flat[second.prefix \o k]
                        = GetSecret(second.name).data[k]

\* Two entries with the same prefix and key name two secrets that hold
\* different values for the key; the payload has the later one's.
C36_Witness ==
    /\ probe.fn = "syncCustomSecrets" /\ probe.done
    /\ probe.arg.entries[1] = Entry(OtherName, <<"k1">>, "app_")
    /\ probe.arg.entries[2] = Entry(TargetName, <<"k1">>, "app_")
    /\ other.data["k1"] = "p"
    /\ probe.out.data.flat = ("app_k1" :> "u")

(***************************************************************************)
(* C37.  For a target whose logical path has the versioned form            *)
(* secret/data/<rest>, the payload sent to the store is wrapped under a    *)
(* single data key also when the cluster tag is non-empty, that is when    *)
(* the physical path is clusters/<clusterTag>/secret/data/<rest>.          *)
(***************************************************************************)
C37_ClusterPathWrapped ==
    (/\ Wrote /\ target.kind = "secret"
     /\ clusterName # <<>>
     /\ VersionedForm(target.ann[VaultPathAnnotation]))
        => LET physicalPath == W_clusters \o Slash \o clusterName \o Slash
                                   \o target.ann[VaultPathAnnotation]
           IN  /\ physicalPath \in DOMAIN store
               /\ store[physicalPath].wrapped

(***************************************************************************)
(* C38.  A failure to persist a finalizer change (adding the finalizer, or *)
(* removing it after cleanup or after sync was disabled) is non-fatal: the *)
(* Reconcile in which that update fails does not return an error on        *)
(* account of it.  In each of these three branches the update of the       *)
(* target is the only call left that can fail.                             *)
(***************************************************************************)
C38_FinalizerFailureNotFatal ==
    res.branch \in {"add_finalizer", "deletion_cleanup",
                    "disabled_remove_finalizer"}
        => ~res.err

====
